---- MODULE Spec2Model ----
(***************************************************************************)
(* Model of the Markdown Code Block Highlighter extension: the pattern     *)
(* tokenizers (TokenizationService, preview script), the tokenize()        *)
(* pipeline with streaming and timeout fallback, the LRU CacheManager and  *)
(* the PreviewEnhancer request queue.                                      *)
(*                                                                         *)
(* A source string is a sequence of UTF-16 code units; a code unit is       *)
(* written as a one-character string, and a code unit outside ASCII by the *)
(* name of its code point (as in u00E9).  Offsets are 0-based as in the code.  *)
(***************************************************************************)
EXTENDS Integers, Sequences, FiniteSets, Bags, TLC

VARIABLES
    \* --- pure tokenizers applied to one input (SpecTok)
    code, language, tokens, op,
    \* --- one call of TokenizationService.tokenize (SpecSvc)
    svcPc,        \* "idle", "race" (a Promise.race is pending), "resolved", "rejected"
    svcCode, svcLang, svcMax,   \* the arguments code, language, maxBlockSize
    svcMode,      \* "normal" or "streaming"
    svcI,         \* tokenizeWithStreaming: the loop index i (a line index)
    svcPos,       \* tokenizeWithStreaming: currentPosition
    svcTokens,    \* tokenizeWithStreaming: tokens pushed so far
    svcStage,     \* the await tokenizeInternal is suspended at
    svcValid,     \* tokenizeInternal: validLanguage
    svcLog,       \* per settled race: how it settled
    svcResult,    \* the value tokenize() resolved with
    \* --- the CacheManager object (SpecCache, SpecCacheZero, Spec)
    cacheManager, \* its fields cache, maxSize, accessOrder
    touched,      \* keys in the order of their latest set or successful get
    cacheLast,    \* the latest call made on the CacheManager from outside
    cacheHad,     \* whether that call found its key present (setMaxSize: entries above the new size)
    \* --- ConfigurationManager, ThemeManager and PreviewEnhancer (Spec)
    currentConfig,               \* ConfigurationManager.currentConfig
    currentThemeData,            \* ThemeManager.currentThemeData
    requestQueue,                \* PreviewEnhancer.requestQueue
    activeRequests,              \* PreviewEnhancer.activeRequests
    batchTimeout,                \* TRUE while the batch timer is pending
    themeChangeDebounceTimeout,  \* "null", "pending" or "expired"
    maxConcurrentRequests,       \* PreviewEnhancer.maxConcurrentRequests
    tasks,                       \* the bag of calls of processRequest not yet settled
    nThemeChanges,               \* theme changes so far
    \* --- the ThemeManager object and its host (SpecTheme)
    activeColorTheme,            \* vscode.window.activeColorTheme.kind
    themeManager,                \* its fields currentThemeData, customThemeOverrides
    themeEvent,                  \* the latest payload fired on onDidChangeTheme
    \* --- detectThemeKind of the preview script applied to one input (SpecDetect)
    bgColor, detectedKind,
    \* --- generateKey applied to two codes (SpecKey)
    keyArgs,      \* the arguments: code1, code2, language, themeKind
    keyPair,      \* the two keys returned, <<>> before the calls
    \* --- the PerformanceMonitor object (SpecMonitor, SpecMetricWindow)
    performanceMonitor, \* its fields enabled, timers, metrics
    perfNow,      \* the reading of performance.now()
    perfLast,     \* the latest call made on the monitor, with what it returned
    perfRecorded, \* per metric name, every value recorded since the latest clear
    perfLabels,   \* per timer id returned by startTimer, the label of that call
    \* --- calculatePriority applied to one request (SpecPriority)
    prioRequest, prioResult,
    \* --- the colours of the tokens of one input (SpecColor)
    colorTheme,    \* the argument themeData
    coloredTokens, \* the tokens returned, each with its color
    colorType,     \* the token type of the latest getColorForTokenType call
    colorResult,   \* what that call returned
    \* --- the preview script in one Markdown preview (SpecPreview)
    codeBlocks,      \* the pre > code elements of the document, in document order
    processedBlocks, \* the Set processedBlocks of block ids
    currentTheme,    \* the kind of currentTheme, "null" before initialize()
    bodyTheme,       \* the kind detectThemeFromDOM() finds on document.body now
    scanTimeout,     \* the timer of the debounced callback of the DOM observer
    themeMutations,  \* the theme observer has attribute records to deliver
    processedNow,    \* positions of the blocks the latest scan enhanced
    dateNow,         \* Date.now()
    nDomChanges      \* changes the host has made to the preview

tokVars == <<code, language, tokens, op>>
svcVars == <<svcPc, svcCode, svcLang, svcMax, svcMode, svcI, svcPos, svcTokens,
             svcStage, svcValid, svcLog, svcResult>>
cacheVars == <<cacheManager, touched, cacheLast, cacheHad>>
enhVars == <<currentConfig, currentThemeData, requestQueue, activeRequests, batchTimeout,
             themeChangeDebounceTimeout, maxConcurrentRequests, tasks, nThemeChanges>>
themeVars == <<activeColorTheme, themeManager, themeEvent, bgColor, detectedKind>>
keyVars == <<keyArgs, keyPair>>
perfVars == <<performanceMonitor, perfNow, perfLast, perfRecorded, perfLabels>>
prioVars == <<prioRequest, prioResult>>
colorVars == <<colorTheme, coloredTokens, colorType, colorResult>>
previewVars == <<codeBlocks, processedBlocks, currentTheme, bodyTheme, scanTimeout,
                 themeMutations, processedNow, dateNow, nDomChanges>>
unitVars == <<keyVars, perfVars, prioVars, colorVars, previewVars>>
vars == <<tokVars, svcVars, cacheVars, enhVars, themeVars, unitVars>>

(***************************************************************************)
(* Bounds of the model.                                                    *)
(***************************************************************************)
MaxLen == 3

\* Code units the inputs are drawn from: letters spelling the keyword "if",
\* a digit, a string quote, the two comment openers, white space, the line
\* separator and one code unit outside ASCII.
Alphabet == {"i", "f", "1", "\"", "#", "/", " ", "\n", "u00E9"}

RECURSIVE StringsOfLen(_, _)
StringsOfLen(alphabet, n) ==
    IF n = 0 THEN {<<>>}
    ELSE {Append(s, c) : s \in StringsOfLen(alphabet, n - 1), c \in alphabet}

Strings == UNION {StringsOfLen(Alphabet, n) : n \in 0..MaxLen}

\* Code units of the arguments of tokenize(): the keyword, a digit and the
\* line separator that the streaming loop splits at.
SvcAlphabet == {"i", "f", "1", "\n"}
SvcStrings == UNION {StringsOfLen(SvcAlphabet, n) : n \in 0..MaxLen}

TokLanguages == {"js", "cobol"}

(***************************************************************************)
(* JavaScript string and regular-expression primitives.                    *)
(***************************************************************************)
Digits == {"0", "1", "2", "3", "4", "5", "6", "7", "8", "9"}
LowerSeq ==
    <<"a", "b", "c", "d", "e", "f", "g", "h", "i", "j", "k", "l", "m",
      "n", "o", "p", "q", "r", "s", "t", "u", "v", "w", "x", "y", "z">>
UpperSeq ==
    <<"A", "B", "C", "D", "E", "F", "G", "H", "I", "J", "K", "L", "M",
      "N", "O", "P", "Q", "R", "S", "T", "U", "V", "W", "X", "Y", "Z">>
LowerLetters == {LowerSeq[i] : i \in 1..26}
UpperLetters == {UpperSeq[i] : i \in 1..26}

\* \w
IsWordChar(c) == c \in Digits \cup LowerLetters \cup UpperLetters \cup {"_"}
\* what "." does not match, and where "$" matches under the m flag
LineTerminators == {"\n", "\r", "u2028", "u2029"}
\* \s, as far as the code units of the model go
WhiteSpace == {" ", "\t", "\f", "\r", "\n", "u00A0", "u2028", "u2029", "uFEFF"}

\* canonicalisation under the i flag
ToLower(c) ==
    IF c \in UpperLetters
    THEN LowerSeq[CHOOSE i \in 1..26 : UpperSeq[i] = c]
    ELSE c

\* String.prototype.substring(from, to) and substring(from)
Substring(s, from, to) == SubSeq(s, from + 1, to)
SubstringFrom(s, from) == SubSeq(s, from + 1, Len(s))
CharAt(s, i) == s[i + 1]

\* \b at offset p of s
WordBoundary(s, p) ==
    LET before == p > 0 /\ IsWordChar(CharAt(s, p - 1))
        after == p < Len(s) /\ IsWordChar(CharAt(s, p))
    IN before # after

\* s has prefix w at offset p
StartsWithAt(s, p, w) ==
    /\ p + Len(w) <= Len(s)
    /\ \A k \in 1..Len(w) : s[p + k] = w[k]

StartsWithAtIgnoreCase(s, p, w) ==
    /\ p + Len(w) <= Len(s)
    /\ \A k \in 1..Len(w) : ToLower(s[p + k]) = w[k]

\* end of the longest run of code units of class cls starting at offset p
RECURSIVE RunEnd(_, _, _)
RunEnd(s, p, cls) ==
    IF p < Len(s) /\ CharAt(s, p) \in cls THEN RunEnd(s, p + 1, cls) ELSE p

\* least offset >= p holding a code unit of class cls, Len(s) when none
RECURSIVE FirstOf(_, _, _)
FirstOf(s, p, cls) ==
    IF p < Len(s) /\ CharAt(s, p) \notin cls THEN FirstOf(s, p + 1, cls) ELSE p

\* String.prototype.split('\n')
RECURSIVE SplitFrom(_, _, _)
SplitFrom(s, p, cur) ==
    IF p >= Len(s) THEN <<cur>>
    ELSE IF CharAt(s, p) = "\n" THEN <<cur>> \o SplitFrom(s, p + 1, <<>>)
    ELSE SplitFrom(s, p + 1, Append(cur, CharAt(s, p)))

Split(s) == SplitFrom(s, 0, <<>>)

\* Array.prototype.join('\n')
RECURSIVE Join(_)
Join(ls) ==
    IF Len(ls) = 0 THEN <<>>
    ELSE IF Len(ls) = 1 THEN ls[1]
    ELSE ls[1] \o <<"\n">> \o Join(Tail(ls))

\* tokens.map(t => t.text).join('')
RECURSIVE ConcatText(_)
ConcatText(ts) ==
    IF Len(ts) = 0 THEN <<>> ELSE ts[1].text \o ConcatText(Tail(ts))

NoMatch == -1

(***************************************************************************)
(* Keyword lists.                                                          *)
(***************************************************************************)
MinimalKeywords ==
  <<
    <<"f","u","n","c","t","i","o","n">>, <<"r","e","t","u","r","n">>, <<"i","f">>,
    <<"e","l","s","e">>, <<"f","o","r">>, <<"w","h","i","l","e">>, <<"d","o">>,
    <<"s","w","i","t","c","h">>, <<"c","a","s","e">>, <<"b","r","e","a","k">>,
    <<"c","o","n","t","i","n","u","e">>, <<"c","o","n","s","t">>, <<"l","e","t">>,
    <<"v","a","r">>, <<"c","l","a","s","s">>, <<"i","n","t","e","r","f","a","c","e">>,
    <<"e","n","u","m">>, <<"t","y","p","e">>, <<"i","m","p","o","r","t">>,
    <<"e","x","p","o","r","t">>, <<"f","r","o","m">>, <<"a","s">>,
    <<"d","e","f","a","u","l","t">>, <<"a","s","y","n","c">>, <<"a","w","a","i","t">>,
    <<"t","r","y">>, <<"c","a","t","c","h">>, <<"f","i","n","a","l","l","y">>,
    <<"t","h","r","o","w">>, <<"n","e","w">>, <<"t","h","i","s">>, <<"s","u","p","e","r">>,
    <<"e","x","t","e","n","d","s">>, <<"i","m","p","l","e","m","e","n","t","s">>,
    <<"p","u","b","l","i","c">>, <<"p","r","i","v","a","t","e">>,
    <<"p","r","o","t","e","c","t","e","d">>, <<"s","t","a","t","i","c">>,
    <<"r","e","a","d","o","n","l","y">>, <<"d","e","f">>, <<"l","a","m","b","d","a">>,
    <<"y","i","e","l","d">>, <<"r","a","i","s","e">>, <<"w","i","t","h">>, <<"p","a","s","s">>,
    <<"a","s","s","e","r","t">>, <<"g","l","o","b","a","l">>,
    <<"n","o","n","l","o","c","a","l">>, <<"i","n">>, <<"i","s">>, <<"n","o","t">>,
    <<"a","n","d">>, <<"o","r">>, <<"t","r","u","e">>, <<"f","a","l","s","e">>,
    <<"n","u","l","l">>, <<"u","n","d","e","f","i","n","e","d">>, <<"v","o","i","d">>,
    <<"a","n","y">>, <<"b","o","o","l","e","a","n">>, <<"n","u","m","b","e","r">>,
    <<"s","t","r","i","n","g">>, <<"o","b","j","e","c","t">>
  >>

PreviewKeywords ==
  <<
    <<"f","u","n","c","t","i","o","n">>, <<"r","e","t","u","r","n">>, <<"i","f">>,
    <<"e","l","s","e">>, <<"f","o","r">>, <<"w","h","i","l","e">>, <<"d","o">>,
    <<"s","w","i","t","c","h">>, <<"c","a","s","e">>, <<"b","r","e","a","k">>,
    <<"c","o","n","t","i","n","u","e">>, <<"c","o","n","s","t">>, <<"l","e","t">>,
    <<"v","a","r">>, <<"c","l","a","s","s">>, <<"i","n","t","e","r","f","a","c","e">>,
    <<"e","n","u","m">>, <<"t","y","p","e">>, <<"i","m","p","o","r","t">>,
    <<"e","x","p","o","r","t">>, <<"f","r","o","m">>, <<"a","s">>,
    <<"d","e","f","a","u","l","t">>, <<"a","s","y","n","c">>, <<"a","w","a","i","t">>,
    <<"t","r","y">>, <<"c","a","t","c","h">>, <<"f","i","n","a","l","l","y">>,
    <<"t","h","r","o","w">>, <<"n","e","w">>, <<"t","h","i","s">>, <<"s","u","p","e","r">>,
    <<"e","x","t","e","n","d","s">>, <<"i","m","p","l","e","m","e","n","t","s">>,
    <<"p","u","b","l","i","c">>, <<"p","r","i","v","a","t","e">>,
    <<"p","r","o","t","e","c","t","e","d">>, <<"s","t","a","t","i","c">>,
    <<"r","e","a","d","o","n","l","y">>, <<"d","e","f">>, <<"l","a","m","b","d","a">>,
    <<"y","i","e","l","d">>, <<"r","a","i","s","e">>, <<"w","i","t","h">>, <<"p","a","s","s">>,
    <<"a","s","s","e","r","t">>, <<"g","l","o","b","a","l">>, <<"i","n">>, <<"i","s">>,
    <<"n","o","t">>, <<"a","n","d">>, <<"o","r">>, <<"t","r","u","e">>, <<"f","a","l","s","e">>,
    <<"n","u","l","l">>, <<"u","n","d","e","f","i","n","e","d">>
  >>

PatternKeywords ==
  <<
    <<"f","u","n","c","t","i","o","n">>, <<"r","e","t","u","r","n">>, <<"i","f">>,
    <<"e","l","s","e">>, <<"f","o","r">>, <<"w","h","i","l","e">>, <<"d","o">>,
    <<"s","w","i","t","c","h">>, <<"c","a","s","e">>, <<"b","r","e","a","k">>,
    <<"c","o","n","t","i","n","u","e">>, <<"c","o","n","s","t">>, <<"l","e","t">>,
    <<"v","a","r">>, <<"c","l","a","s","s">>, <<"i","n","t","e","r","f","a","c","e">>,
    <<"e","n","u","m">>, <<"t","y","p","e">>, <<"i","m","p","o","r","t">>,
    <<"e","x","p","o","r","t">>, <<"f","r","o","m">>, <<"a","s">>,
    <<"d","e","f","a","u","l","t">>, <<"a","s","y","n","c">>, <<"a","w","a","i","t">>,
    <<"t","r","y">>, <<"c","a","t","c","h">>, <<"f","i","n","a","l","l","y">>,
    <<"t","h","r","o","w">>, <<"n","e","w">>, <<"t","h","i","s">>, <<"s","u","p","e","r">>,
    <<"e","x","t","e","n","d","s">>, <<"i","m","p","l","e","m","e","n","t","s">>,
    <<"p","u","b","l","i","c">>, <<"p","r","i","v","a","t","e">>,
    <<"p","r","o","t","e","c","t","e","d">>, <<"s","t","a","t","i","c">>,
    <<"r","e","a","d","o","n","l","y">>
  >>

(***************************************************************************)
(* The regular expressions of the tokenizers.  Each operator gives the end *)
(* offset of the match that starts exactly at offset p of s, or NoMatch.   *)
(***************************************************************************)

\* least offset q >= p at which s reads "*/", NoMatch when there is none
RECURSIVE FindCommentClose(_, _)
FindCommentClose(s, p) ==
    IF p + 2 > Len(s) THEN NoMatch
    ELSE IF StartsWithAt(s, p, <<"*", "/">>) THEN p
    ELSE FindCommentClose(s, p + 1)

\* /(\/\/.*$|\/\*[\s\S]*?\*\/|#.*$)/gm
CommentEndM(s, p) ==
    IF StartsWithAt(s, p, <<"/", "/">>) THEN FirstOf(s, p + 2, LineTerminators)
    ELSE IF StartsWithAt(s, p, <<"/", "*">>) THEN
        LET q == FindCommentClose(s, p + 2)
        IN IF q = NoMatch THEN NoMatch ELSE q + 2
    ELSE IF StartsWithAt(s, p, <<"#">>) THEN FirstOf(s, p + 1, LineTerminators)
    ELSE NoMatch

\* the body of stringPattern after the opening quote q: lazily, an optional
\* backslash followed by one code unit that the dot matches, up to the first q
RECURSIVE LazyStringBody(_, _, _)
LazyStringBody(s, i, q) ==
    IF i >= Len(s) THEN NoMatch
    ELSE IF CharAt(s, i) = q THEN i + 1
    ELSE IF CharAt(s, i) = "\\" THEN
        IF i + 1 < Len(s) /\ CharAt(s, i + 1) \notin LineTerminators
        THEN LazyStringBody(s, i + 2, q)
        ELSE NoMatch
    ELSE IF CharAt(s, i) \in LineTerminators THEN NoMatch
    ELSE LazyStringBody(s, i + 1, q)

\* the three quotes; the grave accent is written by name
Quotes == {"\"", "'", "backtick"}

\* stringPattern: a quote, the lazy body, the same quote (g flag)
StringEndLazy(s, p) ==
    IF p < Len(s) /\ CharAt(s, p) \in Quotes
    THEN LazyStringBody(s, p + 1, CharAt(s, p))
    ELSE NoMatch

\* /\b\d+\.?\d*\b/g
NumberEnd(s, p) ==
    IF ~(p < Len(s) /\ CharAt(s, p) \in Digits /\ WordBoundary(s, p)) THEN NoMatch
    ELSE
        LET e1 == RunEnd(s, p, Digits)
        IN IF e1 < Len(s) /\ CharAt(s, e1) = "."
           THEN LET e2 == RunEnd(s, e1 + 1, Digits)
                IN IF WordBoundary(s, e2) THEN e2
                   ELSE IF WordBoundary(s, e1 + 1) THEN e1 + 1
                   ELSE e1
           ELSE IF WordBoundary(s, e1) THEN e1 ELSE NoMatch

\* new RegExp(`\\b(${keywords.join('|')})\\b`, flags), ignoreCase for the i flag
KeywordEnd(s, p, keywords, ignoreCase) ==
    IF ~WordBoundary(s, p) THEN NoMatch
    ELSE
        LET hits == {k \in 1..Len(keywords) :
                        /\ IF ignoreCase
                           THEN StartsWithAtIgnoreCase(s, p, keywords[k])
                           ELSE StartsWithAt(s, p, keywords[k])
                        /\ WordBoundary(s, p + Len(keywords[k]))}
        IN IF hits = {} THEN NoMatch
           ELSE p + Len(keywords[CHOOSE k \in hits : \A j \in hits : k <= j])

\* the match of the named pattern family at offset p
MatchEnd(kind, s, p) ==
    CASE kind = "comment" -> CommentEndM(s, p)
      [] kind = "string" -> StringEndLazy(s, p)
      [] kind = "number" -> NumberEnd(s, p)
      [] kind = "keyword" -> KeywordEnd(s, p, MinimalKeywords, TRUE)
      [] kind = "previewKeyword" -> KeywordEnd(s, p, PreviewKeywords, TRUE)

MatchType(kind) == IF kind = "previewKeyword" THEN "keyword" ELSE kind

\* while ((match = pattern.exec(line)) !== null) matches.push({start, end, type})
\* from lastIndex = from on
RECURSIVE ExecAll(_, _, _)
ExecAll(kind, s, from) ==
    IF from > Len(s) THEN <<>>
    ELSE
        LET e == MatchEnd(kind, s, from)
        IN IF e = NoMatch THEN ExecAll(kind, s, from + 1)
           ELSE <<[start |-> from, end |-> e, type |-> MatchType(kind)]>>
                \o ExecAll(kind, s, IF e > from THEN e ELSE from + 1)

\* matches.sort((a, b) => a.start - b.start): a stable sort by start
RECURSIVE InsertByStart(_, _)
InsertByStart(sorted, m) ==
    IF Len(sorted) = 0 THEN <<m>>
    ELSE IF sorted[Len(sorted)].start <= m.start THEN Append(sorted, m)
    ELSE Append(InsertByStart(SubSeq(sorted, 1, Len(sorted) - 1), m), sorted[Len(sorted)])

RECURSIVE SortByStart(_)
SortByStart(ms) ==
    IF Len(ms) = 0 THEN <<>>
    ELSE InsertByStart(SortByStart(SubSeq(ms, 1, Len(ms) - 1)), ms[Len(ms)])

\* the overlap filter left out: every candidate match is kept
RemoveOverlaps_KeepAll(ms, lastEnd) == ms


\* for (const m of matches) if (m.start >= lastEnd) { filtered.push(m); lastEnd = m.end }
RECURSIVE RemoveOverlaps(_, _)
RemoveOverlaps(ms, lastEnd) ==
    IF Len(ms) = 0 THEN <<>>
    ELSE IF ms[1].start >= lastEnd
         THEN <<ms[1]>> \o RemoveOverlaps(Tail(ms), ms[1].end)
         ELSE RemoveOverlaps(Tail(ms), lastEnd)

\* the Token object literal with endIndex set to the start offset
Token_EndAtStart(text, type, startIndex, endIndex) ==
    [text |-> text, scopes |-> type, startIndex |-> startIndex, endIndex |-> startIndex]


Token(text, type, startIndex, endIndex) ==
    [text |-> text, scopes |-> type, startIndex |-> startIndex, endIndex |-> endIndex]

\* LineTokens without the "Add remaining text" step
RECURSIVE LineTokens_NoRemainingText(_, _, _, _)
LineTokens_NoRemainingText(line, ms, linePosition, position) ==
    IF Len(ms) = 0 THEN <<>>
    ELSE
        LET m == ms[1]
            before == IF m.start > linePosition
                      THEN <<Token(Substring(line, linePosition, m.start), "text",
                                   position + linePosition, position + m.start)>>
                      ELSE <<>>
            matched == <<Token(Substring(line, m.start, m.end), m.type,
                               position + m.start, position + m.end)>>
        IN before \o matched
               \o LineTokens_NoRemainingText(line, Tail(ms), m.end, position)

\* the "Create tokens" loop of one line: text before each kept match, the match
RECURSIVE LineTokens(_, _, _, _)
LineTokens(line, ms, linePosition, position) ==
    IF Len(ms) = 0 THEN
        IF linePosition < Len(line)
        THEN <<Token(SubstringFrom(line, linePosition), "text",
                     position + linePosition, position + Len(line))>>
        ELSE <<>>
    ELSE
        LET m == ms[1]
            before == IF m.start > linePosition
                      THEN <<Token(Substring(line, linePosition, m.start), "text",
                                   position + linePosition, position + m.start)>>
                      ELSE <<>>
            matched == <<Token(Substring(line, m.start, m.end), m.type,
                               position + m.start, position + m.end)>>
        IN before \o matched \o LineTokens(line, Tail(ms), m.end, position)

\* the candidate matches of one line, in the order the code pushes them
MinimalMatches(line) ==
    ExecAll("comment", line, 0) \o ExecAll("string", line, 0)
        \o ExecAll("keyword", line, 0) \o ExecAll("number", line, 0)

FilteredMatches(matches) == RemoveOverlaps(SortByStart(matches), -1)

\* the loop over lines of createMinimalHighlighting
RECURSIVE MinimalLines(_, _, _)
MinimalLines(lines, lineIndex, position) ==
    IF lineIndex > Len(lines) THEN <<>>
    ELSE
        LET line == lines[lineIndex]
            toks == LineTokens(line, FilteredMatches(MinimalMatches(line)), 0, position)
            pos2 == position + Len(line)
        IN IF lineIndex < Len(lines)
           THEN toks \o <<Token(<<"\n">>, "text", pos2, pos2 + 1)>>
                     \o MinimalLines(lines, lineIndex + 1, pos2 + 1)
           ELSE toks

\* createMinimalHighlighting returning its token list as it is, even empty
createMinimalHighlighting_NoGuard(c, lang) ==
    [language |-> lang, tokens |-> MinimalLines(Split(c), 1, 0)]

\* TokenizationService.createMinimalHighlighting
createMinimalHighlighting(c, lang) ==
    LET toks == MinimalLines(Split(c), 1, 0)
    IN [language |-> lang,
        tokens |-> IF Len(toks) > 0 THEN toks
                   ELSE <<Token(c, "text", 0, Len(c))>>]

(***************************************************************************)
(* The pattern tier: simpleTokenize and its pattern table.                 *)
(***************************************************************************)

\* '//.*$' and '#.*$' without the m flag: the dollar matches at the end of
\* the input only, so the comment must run to the end of the line
CommentToEnd(s, p, opener) ==
    IF StartsWithAt(s, p, opener)
          /\ FirstOf(s, p + Len(opener), LineTerminators) = Len(s)
    THEN Len(s)
    ELSE NoMatch

\* '/\\*[\\s\\S]*?\\*/'
BlockCommentEnd(s, p) ==
    IF StartsWithAt(s, p, <<"/", "*">>) THEN
        LET q == FindCommentClose(s, p + 2)
        IN IF q = NoMatch THEN NoMatch ELSE q + 2
    ELSE NoMatch

\* the body of a quoted string of the pattern table, greedy: code units other
\* than the quote and the backslash, or a backslash and one code unit the dot
\* matches, then the closing quote
RECURSIVE GreedyStringBody(_, _, _)
GreedyStringBody(s, i, q) ==
    IF i >= Len(s) THEN NoMatch
    ELSE IF CharAt(s, i) = q THEN i + 1
    ELSE IF CharAt(s, i) = "\\" THEN
        IF i + 1 < Len(s) /\ CharAt(s, i + 1) \notin LineTerminators
        THEN GreedyStringBody(s, i + 2, q)
        ELSE NoMatch
    ELSE GreedyStringBody(s, i + 1, q)

StringEndGreedy(s, p, q) ==
    IF p < Len(s) /\ CharAt(s, p) = q THEN GreedyStringBody(s, p + 1, q) ELSE NoMatch

IdentStart == LowerLetters \cup UpperLetters \cup {"_", "$"}
IdentPart == IdentStart \cup Digits

\* '\\b[a-zA-Z_$][a-zA-Z0-9_$]*(?=\\s*\\()'
FunctionEnd(s, p) ==
    IF p < Len(s) /\ CharAt(s, p) \in IdentStart /\ WordBoundary(s, p) THEN
        LET r == RunEnd(s, p + 1, IdentPart)
            w == RunEnd(s, r, WhiteSpace)
        IN IF w < Len(s) /\ CharAt(s, w) = "(" THEN r ELSE NoMatch
    ELSE NoMatch

\* '\\b[first][a-zA-Z0-9_$]*\\b': the longest run that ends at a word boundary
IdentifierEnd(s, p, first) ==
    IF p < Len(s) /\ CharAt(s, p) \in first /\ WordBoundary(s, p) THEN
        LET r == RunEnd(s, p + 1, IdentPart)
            ends == {e \in (p + 1)..r : WordBoundary(s, e)}
        IN IF ends = {} THEN NoMatch
           ELSE CHOOSE e \in ends : \A f \in ends : f <= e
    ELSE NoMatch

OperatorChars ==
    {"+", "-", "*", "/", "%", "=", "<", ">", "!", "&", "|", "^", "~", "?", ":"}
PunctuationChars == {"(", ")", "[", "]", "{", "}", ";", ",", "."}

\* '[+\\-*/%=<>!&|^~?:]+'
OperatorEnd(s, p) ==
    LET r == RunEnd(s, p, OperatorChars) IN IF r > p THEN r ELSE NoMatch

\* '[\\(\\)\\[\\]\\{\\};,.]'
PunctuationEnd(s, p) ==
    IF p < Len(s) /\ CharAt(s, p) \in PunctuationChars THEN p + 1 ELSE NoMatch

\* getLanguagePatterns: the same table for every language
getLanguagePatterns(lang) ==
    <<[regex |-> "lineComment", type |-> "comment"],
      [regex |-> "blockComment", type |-> "comment"],
      [regex |-> "hashComment", type |-> "comment"],
      [regex |-> "doubleQuoted", type |-> "string"],
      [regex |-> "singleQuoted", type |-> "string"],
      [regex |-> "backQuoted", type |-> "string"],
      [regex |-> "number", type |-> "number"],
      [regex |-> "keyword", type |-> "keyword"],
      [regex |-> "function", type |-> "function"],
      [regex |-> "class", type |-> "class"],
      [regex |-> "variable", type |-> "variable"],
      [regex |-> "operator", type |-> "operator"],
      [regex |-> "punctuation", type |-> "punctuation"]>>

\* regex.lastIndex = linePosition; match = regex.exec(line);
\* match && match.index === linePosition
PatternEnd(regex, s, p) ==
    CASE regex = "lineComment" -> CommentToEnd(s, p, <<"/", "/">>)
      [] regex = "blockComment" -> BlockCommentEnd(s, p)
      [] regex = "hashComment" -> CommentToEnd(s, p, <<"#">>)
      [] regex = "doubleQuoted" -> StringEndGreedy(s, p, "\"")
      [] regex = "singleQuoted" -> StringEndGreedy(s, p, "'")
      [] regex = "backQuoted" -> StringEndGreedy(s, p, "backtick")
      [] regex = "number" -> NumberEnd(s, p)
      [] regex = "keyword" -> KeywordEnd(s, p, PatternKeywords, FALSE)
      [] regex = "function" -> FunctionEnd(s, p)
      [] regex = "class" -> IdentifierEnd(s, p, UpperLetters)
      [] regex = "variable" -> IdentifierEnd(s, p, IdentStart)
      [] regex = "operator" -> OperatorEnd(s, p)
      [] regex = "punctuation" -> PunctuationEnd(s, p)

\* the while loop over one line of simpleTokenize
RECURSIVE SimpleLine(_, _, _, _)
SimpleLine(patterns, line, linePosition, position) ==
    IF linePosition >= Len(line) THEN <<>>
    ELSE
        LET hits == {k \in 1..Len(patterns) :
                        PatternEnd(patterns[k].regex, line, linePosition) # NoMatch}
        IN IF hits # {} THEN
               LET k == CHOOSE j \in hits : \A h \in hits : j <= h
                   e == PatternEnd(patterns[k].regex, line, linePosition)
               IN <<Token(Substring(line, linePosition, e), patterns[k].type,
                          position + linePosition, position + e)>>
                  \o SimpleLine(patterns, line, e, position)
           ELSE <<Token(<<CharAt(line, linePosition)>>, "text",
                        position + linePosition, position + linePosition + 1)>>
                \o SimpleLine(patterns, line, linePosition + 1, position)

RECURSIVE SimpleLines(_, _, _, _)
SimpleLines(patterns, lines, lineIndex, position) ==
    IF lineIndex > Len(lines) THEN <<>>
    ELSE
        LET line == lines[lineIndex]
            toks == SimpleLine(patterns, line, 0, position)
        IN IF lineIndex < Len(lines)
           THEN toks \o <<Token(<<"\n">>, "text", position + Len(line),
                                position + Len(line) + 1)>>
                     \o SimpleLines(patterns, lines, lineIndex + 1, position + Len(line) + 1)
           ELSE toks

\* TokenizationService.simpleTokenize
simpleTokenize(text, lang) ==
    SimpleLines(getLanguagePatterns(lang), Split(text), 1, 0)

(***************************************************************************)
(* The preview script's tokenizeCode.                                      *)
(***************************************************************************)
PreviewToken(text, type) == [text |-> text, type |-> type]

PreviewMatches(line) ==
    ExecAll("comment", line, 0) \o ExecAll("string", line, 0)
        \o ExecAll("number", line, 0) \o ExecAll("previewKeyword", line, 0)

RECURSIVE PreviewLineTokens(_, _, _)
PreviewLineTokens(line, ms, position) ==
    IF Len(ms) = 0 THEN
        IF position < Len(line)
        THEN <<PreviewToken(SubstringFrom(line, position), "text")>>
        ELSE <<>>
    ELSE
        LET m == ms[1]
            before == IF m.start > position
                      THEN <<PreviewToken(Substring(line, position, m.start), "text")>>
                      ELSE <<>>
        IN before \o <<PreviewToken(Substring(line, m.start, m.end), m.type)>>
                  \o PreviewLineTokens(line, Tail(ms), m.end)

RECURSIVE PreviewLines(_, _)
PreviewLines(lines, lineIndex) ==
    IF lineIndex > Len(lines) THEN <<>>
    ELSE
        LET line == lines[lineIndex]
            toks == PreviewLineTokens(line, FilteredMatches(PreviewMatches(line)), 0)
        IN IF lineIndex < Len(lines)
           THEN toks \o <<PreviewToken(<<"\n">>, "text")>> \o PreviewLines(lines, lineIndex + 1)
           ELSE toks

\* previewScript tokenizeCode
tokenizeCode(c, lang) == PreviewLines(Split(c), 1)

(***************************************************************************)
(* TokenizationService.tokenize: language handling, the semantic tier, the *)
(* timeout race and the streaming loop.                                    *)
(***************************************************************************)

\* The chunk size of tokenizeWithStreaming, in lines.  The source sets 500;
\* the model scales it down so that an input of a few code units spans
\* several chunks.
STREAMING_CHUNK_SIZE == 2

\* language identifiers of the model, with String.prototype.toLowerCase
toLowerCase(l) ==
    CASE l = "JS" -> "js"
      [] l = "Py" -> "py"
      [] OTHER -> l

AliasKeys ==
    {"js", "ts", "py", "rb", "sh", "bash", "zsh", "yml", "dockerfile", "md", "cs",
     "cpp", "c++", "kt", "rs", "go", "java", "php", "swift", "html", "css", "scss",
     "less", "json", "xml", "sql"}

aliases(k) ==
    CASE k = "js" -> "javascript"
      [] k = "ts" -> "typescript"
      [] k = "py" -> "python"
      [] k = "rb" -> "ruby"
      [] k \in {"sh", "bash", "zsh"} -> "shellscript"
      [] k = "yml" -> "yaml"
      [] k = "dockerfile" -> "docker"
      [] k = "md" -> "markdown"
      [] k = "cs" -> "csharp"
      [] k \in {"cpp", "c++"} -> "cpp"
      [] k = "kt" -> "kotlin"
      [] k = "rs" -> "rust"
      [] OTHER -> k

\* TokenizationService.normalizeLanguage
normalizeLanguage(l) ==
    IF toLowerCase(l) \in AliasKeys THEN aliases(toLowerCase(l)) ELSE toLowerCase(l)

\* vscode.languages.getLanguages(): the identifiers the host knows
HostLanguages == {"plaintext", "javascript", "typescript", "python", "markdown"}

\* TokenizationService.validateLanguage; hostThrows: getLanguages() rejected
validateLanguage(l, hostThrows) ==
    IF hostThrows THEN "plaintext"
    ELSE IF l \in HostLanguages THEN l
    ELSE IF normalizeLanguage(l) \in HostLanguages THEN normalizeLanguage(l)
    ELSE "plaintext"

\* getSemanticTokenTypeName
SemanticTypes ==
    <<"namespace", "type", "class", "enum", "interface", "struct", "typeParameter",
      "parameter", "variable", "property", "enumMember", "event", "function",
      "method", "macro", "keyword", "modifier", "comment", "string", "number",
      "regexp", "operator">>

getSemanticTokenTypeName(tokenType) ==
    IF tokenType + 1 \in 1..Len(SemanticTypes) THEN SemanticTypes[tokenType + 1]
    ELSE "unknown"

\* absoluteStart of parseSemanticTokens: the lengths of the lines before
\* currentLine, each plus one, plus currentChar
RECURSIVE LineStart(_, _)
LineStart(lines, currentLine) ==
    IF currentLine = 0 THEN 0
    ELSE LineStart(lines, currentLine - 1) + Len(lines[currentLine]) + 1

\* the loop of parseSemanticTokens over the provider's data, one record for
\* each group of five numbers
RECURSIVE SemanticLoop(_, _, _, _, _)
SemanticLoop(text, data, k, currentLine, currentChar) ==
    IF k > Len(data) THEN <<>>
    ELSE
        LET d == data[k]
            line2 == currentLine + d.deltaLine
            char2 == IF d.deltaLine = 0 THEN currentChar + d.deltaStartChar
                     ELSE d.deltaStartChar
            absoluteStart == LineStart(Split(text), line2) + char2
        IN <<Token(Substring(text, absoluteStart, absoluteStart + d.length),
                   getSemanticTokenTypeName(d.tokenType),
                   absoluteStart, absoluteStart + d.length)>>
           \o SemanticLoop(text, data, k + 1, line2, char2)

\* TokenizationService.fillGapsWithPlainTokens
RECURSIVE FillLoop(_, _, _)
FillLoop(text, toks, lastEnd) ==
    IF Len(toks) = 0 THEN
        IF lastEnd < Len(text)
        THEN <<Token(SubstringFrom(text, lastEnd), "text", lastEnd, Len(text))>>
        ELSE <<>>
    ELSE
        LET t == toks[1]
            gap == IF t.startIndex > lastEnd
                   THEN <<Token(Substring(text, lastEnd, t.startIndex), "text",
                                lastEnd, t.startIndex)>>
                   ELSE <<>>
        IN gap \o <<t>> \o FillLoop(text, Tail(toks), t.endIndex)

fillGapsWithPlainTokens(text, toks) ==
    IF Len(toks) = 0 THEN <<Token(text, "text", 0, Len(text))>>
    ELSE FillLoop(text, toks, 0)

\* TokenizationService.parseSemanticTokens
parseSemanticTokens(text, data) ==
    fillGapsWithPlainTokens(text, SemanticLoop(text, data, 1, 0, 0))

\* What vscode.provideDocumentSemanticTokens may answer for a document: no
\* tokens, or one keyword token over the first code unit of a non-empty
\* first line (data the provider contract allows: inside the text).
SemanticAnswers(text) ==
    {<<>>} \cup
    (IF Len(Split(text)[1]) > 0
     THEN {<<[deltaLine |-> 0, deltaStartChar |-> 0, length |-> 1, tokenType |-> 15]>>}
     ELSE {})

\* tokenizeInternal from the semantic tier on: tier 1 when the provider
\* answered tokens, else tier 2 when it is non-empty, else tier 3
tokenizeInternalResult(text, validLanguage, data) ==
    IF Len(data) > 0
    THEN [language |-> validLanguage, tokens |-> parseSemanticTokens(text, data)]
    ELSE \* tryPatternTokenization, then the last resort
         LET patternTokens == simpleTokenize(text, validLanguage)
         IN IF Len(patternTokens) > 0
            THEN [language |-> validLanguage, tokens |-> patternTokens]
            ELSE createMinimalHighlighting(text, validLanguage)

\* lines.slice(i, i + STREAMING_CHUNK_SIZE)
Slice(lines, i, j) == SubSeq(lines, i + 1, IF j < Len(lines) THEN j ELSE Len(lines))

\* the chunk the streaming loop is at
CurrentChunk == Join(Slice(Split(svcCode), svcI, svcI + STREAMING_CHUNK_SIZE))

\* the text the pending race tokenizes
RaceText == IF svcMode = "streaming" THEN CurrentChunk ELSE svcCode

\* for (const token of chunkResult.tokens) tokens.push({...token, shifted})
RECURSIVE Shifted(_, _)
Shifted(toks, by) ==
    IF Len(toks) = 0 THEN <<>>
    ELSE <<[toks[1] EXCEPT !.startIndex = @ + by, !.endIndex = @ + by]>>
         \o Shifted(Tail(toks), by)

SvcIdle ==
    /\ svcPc = "idle" /\ svcCode = <<>> /\ svcLang = "js" /\ svcMax = 0
    /\ svcMode = "normal" /\ svcI = 0 /\ svcPos = 0 /\ svcTokens = <<>>
    /\ svcStage = "none" /\ svcValid = "none" /\ svcLog = <<>>
    /\ svcResult = [language |-> "none", tokens |-> <<>>]

\* tokenize(code, language, themeData, maxBlockSize, timeout): the size check
\* and the start of the first race
Tokenize(c, l, m) ==
    /\ svcPc = "idle"
    /\ svcCode' = c /\ svcLang' = l /\ svcMax' = m
    /\ svcMode' = IF Len(c) > m THEN "streaming" ELSE "normal"
    /\ svcPc' = "race"
    /\ svcStage' = "validateLanguage"
    /\ UNCHANGED <<svcI, svcPos, svcTokens, svcValid, svcLog, svcResult>>
    /\ UNCHANGED <<tokVars, cacheVars, enhVars, themeVars, unitVars>>

Fulfilled(v) == [ok |-> TRUE, value |-> v]
Rejected(e) == [ok |-> FALSE, value |-> e]

\* tokenizeWithTimeout: the .catch handler on the race turns a rejection
\* into the minimal highlighting of the text; minimal is
\* createMinimalHighlighting(code, language) of the call
tokenizeWithTimeout(race, minimal) ==
    IF race.ok THEN race ELSE Fulfilled(minimal)

\* tokenize: the catch around the awaited call turns a rejection into the
\* minimal highlighting of the code
tokenizeCatch(awaited, minimal) ==
    IF awaited.ok THEN awaited ELSE Fulfilled(minimal)

\* The pending race settles with the outcome `race`; `how` says which way.
\* In normal mode tokenize() returns what tokenizeWithTimeout gives, or, from
\* its own catch, the minimal highlighting.  In streaming mode the loop body
\* runs: the chunk's tokens are pushed shifted (its text as one plain token
\* when the call threw), currentPosition advances, and either the next
\* chunk's race starts or the loop ends and the result is returned.
Settle(race, how) ==
    \E text \in {RaceText} :
    \E minimal \in {createMinimalHighlighting(text, svcLang)} :
    \E out \in {tokenizeWithTimeout(race, minimal)} :
    /\ svcLog' = Append(svcLog, how)
    /\ IF svcMode = "normal" THEN
           \E res \in {tokenizeCatch(out, minimal)} :
               /\ svcResult' = res.value
               /\ svcPc' = IF res.ok THEN "resolved" ELSE "rejected"
               /\ svcStage' = "none"
               /\ UNCHANGED <<svcI, svcPos, svcTokens>>
       ELSE
           \E chunk \in {CurrentChunk},
              more \in {svcI + STREAMING_CHUNK_SIZE < Len(Split(svcCode))} :
           \E toks \in {IF out.ok
                        THEN svcTokens \o Shifted(out.value.tokens, svcPos)
                        ELSE Append(svcTokens,
                                    Token(chunk, "text", svcPos, svcPos + Len(chunk)))} :
              /\ svcTokens' = toks
              /\ svcPos' = IF out.ok
                           THEN svcPos + Len(chunk) + (IF more THEN 1 ELSE 0)
                           ELSE svcPos + Len(chunk) + 1
              /\ svcI' = svcI + STREAMING_CHUNK_SIZE
              /\ IF more
                 THEN /\ svcPc' = "race"
                      /\ svcStage' = "validateLanguage"
                      /\ UNCHANGED svcResult
                 ELSE /\ svcPc' = "resolved"
                      /\ svcStage' = "none"
                      /\ svcResult' = [language |-> normalizeLanguage(svcLang),
                                       tokens |-> toks]
    /\ UNCHANGED <<svcCode, svcLang, svcMax, svcMode>>
    /\ UNCHANGED <<tokVars, cacheVars, enhVars, themeVars, unitVars>>

\* tokenizeInternal: await validateLanguage(normalizedLanguage) returns
ValidateLanguageReturns ==
    /\ svcPc = "race" /\ svcStage = "validateLanguage"
    /\ \E hostThrows \in BOOLEAN :
           svcValid' = validateLanguage(normalizeLanguage(svcLang), hostThrows)
    /\ svcStage' = "openTextDocument"
    /\ UNCHANGED <<svcPc, svcCode, svcLang, svcMax, svcMode, svcI, svcPos, svcTokens,
                   svcLog, svcResult>>
    /\ UNCHANGED <<tokVars, cacheVars, enhVars, themeVars, unitVars>>

\* tokenizeInternal: await openTextDocument(...) returns the document
OpenTextDocumentReturns ==
    /\ svcPc = "race" /\ svcStage = "openTextDocument"
    /\ svcStage' = "semanticTokens"
    /\ UNCHANGED <<svcPc, svcCode, svcLang, svcMax, svcMode, svcI, svcPos, svcTokens,
                   svcValid, svcLog, svcResult>>
    /\ UNCHANGED <<tokVars, cacheVars, enhVars, themeVars, unitVars>>

\* tokenizeInternal: openTextDocument(...) rejects, so tokenizeInternal
\* rejects, the race rejects and the catch of tokenizeWithTimeout answers
OpenTextDocumentThrows ==
    /\ svcPc = "race" /\ svcStage = "openTextDocument"
    /\ Settle(Rejected("openTextDocument failed"), "error")
    /\ UNCHANGED svcValid

\* tokenizeInternal: trySemanticTokens returns (null when the command threw
\* or answered nothing), the pattern tiers run and tokenizeInternal fulfils
SemanticTokensReturn ==
    /\ svcPc = "race" /\ svcStage = "semanticTokens"
    /\ \E text \in {RaceText} :
       \E data \in SemanticAnswers(text) :
       \E result \in {tokenizeInternalResult(text, svcValid, data)} :
           Settle(Fulfilled(result), "internal")
    /\ UNCHANGED svcValid

\* the setTimeout of tokenizeWithTimeout fires while tokenizeInternal is
\* pending: the race rejects and the catch of tokenizeWithTimeout answers
TimeoutFires ==
    /\ svcPc = "race"
    /\ Settle(Rejected("Tokenization timeout"), "timeout")
    /\ UNCHANGED svcValid

(***************************************************************************)
(* CacheManager.  A key is a string, written as the sequence of its code   *)
(* units.  An entry's timestamp is written by get and set and read         *)
(* nowhere in the program: the model leaves it out.                        *)
(***************************************************************************)
MaxCacheSize == 2

\* null
NULL == [null |-> TRUE]

\* Map: new Map(), map.set(k, v), map.delete(k)
EmptyMap == [k \in {} |-> NULL]
MapSet(f, k, v) == [x \in DOMAIN f \cup {k} |-> IF x = k THEN v ELSE f[x]]
MapDelete(f, k) == [x \in DOMAIN f \ {k} |-> f[x]]

\* constructor(maxSize)
CacheManager(maxSize) ==
    [cache |-> EmptyMap, maxSize |-> maxSize, accessOrder |-> <<>>]

\* accessOrder.filter(k => k !== key)
Without(order, key) == SelectSeq(order, LAMBDA k : k # key)

\* updateAccessOrder leaving the key where it is
updateAccessOrder_Keep(m, key) == m

updateAccessOrder(m, key) ==
    [m EXCEPT !.accessOrder = Append(Without(@, key), key)]

\* undefined and null where a string is expected, written as one-element
\* sequences that are no string
Undefined == <<"undefined">>
NullKey == <<"null">>

\* the truth value of a string, of undefined, of null, of a function
Truthy(value) == value \notin {<<>>, Undefined, NullKey}

\* evictLeastRecentlyUsed taking the most recently used key instead
evictLeastRecentlyUsed_Newest(m) ==
    IF Len(m.accessOrder) = 0 THEN m
    ELSE LET keyToEvict == m.accessOrder[Len(m.accessOrder)]
         IN [m EXCEPT !.accessOrder = SubSeq(@, 1, Len(@) - 1),
                      !.cache = IF Truthy(keyToEvict) THEN MapDelete(@, keyToEvict)
                                ELSE @]


\* evictLeastRecentlyUsed evicting nothing
evictLeastRecentlyUsed_None(m) == m

\* if (keyToEvict): the empty string, null and undefined are falsy
evictLeastRecentlyUsed(m) ==
    IF Len(m.accessOrder) = 0 THEN m
    ELSE LET keyToEvict == Head(m.accessOrder)
         IN [m EXCEPT !.accessOrder = Tail(@),
                      !.cache = IF Truthy(keyToEvict) THEN MapDelete(@, keyToEvict)
                                ELSE @]

size(m) == Cardinality(DOMAIN m.cache)

has(m, key) == key \in DOMAIN m.cache

\* get that never finds an entry
getReturn_AlwaysMiss(m, key) == NULL

\* get: the value returned, and the CacheManager after the call
getReturn(m, key) == IF key \in DOMAIN m.cache THEN m.cache[key].value ELSE NULL

get(m, key) == IF key \in DOMAIN m.cache THEN updateAccessOrder(m, key) ELSE m

\* set on a present key that leaves the access order as it was
set_NoTouch(m, key, value) ==
    IF key \in DOMAIN m.cache
    THEN [m EXCEPT !.cache[key].value = value]
    ELSE LET e == IF size(m) >= m.maxSize THEN evictLeastRecentlyUsed(m) ELSE m
         IN [e EXCEPT !.cache = MapSet(@, key, [key |-> key, value |-> value]),
                      !.accessOrder = Append(@, key)]


set(m, key, value) ==
    IF key \in DOMAIN m.cache
    THEN updateAccessOrder([m EXCEPT !.cache[key].value = value], key)
    ELSE LET e == IF size(m) >= m.maxSize THEN evictLeastRecentlyUsed(m) ELSE m
         IN [e EXCEPT !.cache = MapSet(@, key, [key |-> key, value |-> value]),
                      !.accessOrder = Append(@, key)]

\* clear that resets the access order only
clear_OrderOnly(m) == [m EXCEPT !.accessOrder = <<>>]

clear(m) == [m EXCEPT !.cache = EmptyMap, !.accessOrder = <<>>]

deleteReturn(m, key) == key \in DOMAIN m.cache

delete(m, key) ==
    IF key \in DOMAIN m.cache
    THEN [m EXCEPT !.cache = MapDelete(@, key), !.accessOrder = Without(@, key)]
    ELSE m

\* while (this.cache.size > this.maxSize) this.evictLeastRecentlyUsed();
\* an eviction that changes nothing leaves the loop condition true for ever:
\* the result then still holds more than maxSize entries
RECURSIVE EvictWhileOver(_)
EvictWhileOver(m) ==
    IF size(m) > m.maxSize
    THEN LET e == evictLeastRecentlyUsed(m)
         IN IF e = m THEN m ELSE EvictWhileOver(e)
    ELSE m

setMaxSize(m, newMaxSize) == EvictWhileOver([m EXCEPT !.maxSize = newMaxSize])

\* whether the loop of setMaxSize ends
setMaxSizeReturns(m, newMaxSize) == size(setMaxSize(m, newMaxSize)) <= newMaxSize

\* hashCode: hash = ((hash << 5) - hash) + char; hash = hash & hash, kept as
\* the two 16-bit halves <<hi, lo>> of the 32-bit pattern of hash
DigitSeq == <<"0", "1", "2", "3", "4", "5", "6", "7", "8", "9">>

\* String.prototype.charCodeAt for digits, ASCII letters and the other code
\* units of Alphabet
charCodeAt(c) ==
    IF c \in Digits THEN 47 + (CHOOSE i \in 1..10 : DigitSeq[i] = c)
    ELSE IF c \in UpperLetters THEN 64 + (CHOOSE i \in 1..26 : UpperSeq[i] = c)
    ELSE IF c = "\n" THEN 10
    ELSE IF c = " " THEN 32
    ELSE IF c = "\"" THEN 34
    ELSE IF c = "#" THEN 35
    ELSE IF c = "/" THEN 47
    ELSE IF c = "u00E9" THEN 233
    ELSE 96 + (CHOOSE i \in 1..26 : LowerSeq[i] = c)

RECURSIVE HashLoop(_, _, _)
HashLoop(str, i, hash) ==
    IF i > Len(str) THEN hash
    ELSE LET lo == hash[2] * 31 + charCodeAt(str[i])
             hi == hash[1] * 31 + (lo \div 65536)
         IN HashLoop(str, i + 1, <<hi % 65536, lo % 65536>>)

\* Math.abs of the signed 32-bit value, as halves
Abs32(hash) ==
    IF hash[1] < 32768 THEN hash
    ELSE <<(65535 - hash[1] + (IF hash[2] = 0 THEN 1 ELSE 0)) % 65536,
           (65536 - hash[2]) % 65536>>

\* Number.prototype.toString(36) of a value given as halves
RECURSIVE ToString36(_)
ToString36(n) ==
    LET rest == (n[1] % 36) * 65536 + n[2]
        q == <<n[1] \div 36, rest \div 36>>
        d == rest % 36
        digit == IF d < 10 THEN DigitSeq[d + 1] ELSE LowerSeq[d - 9]
    IN IF q = <<0, 0>> THEN <<digit>> ELSE Append(ToString36(q), digit)

hashCode(str) ==
    IF Len(str) = 0 THEN <<"0">> ELSE ToString36(Abs32(HashLoop(str, 1, <<0, 0>>)))

\* `${language}:${themeKind}:${hash}`
generateKey(c, lang, themeKind) ==
    lang \o <<":">> \o themeKind \o <<":">> \o hashCode(c)

\* --- calls on a CacheManager from outside (SpecCache, SpecCacheZero)

\* keys and values of the calls: one key more than the largest capacity
CacheKeys == {<<LowerSeq[i]>> : i \in 1..(MaxCacheSize + 1)}
CacheValues == {[language |-> "javascript", tokens |-> <<>>],
                [language |-> "python", tokens |-> <<>>]}

Touch(key) == Append(Without(touched, key), key)

CacheCall(opName, key) == [op |-> opName, key |-> key]

CacheIdle ==
    /\ cacheManager = CacheManager(0)
    /\ touched = <<>>
    /\ cacheLast = CacheCall("none", <<>>)
    /\ cacheHad = FALSE

CallGet ==
    \E key \in CacheKeys :
        /\ cacheManager' = get(cacheManager, key)
        /\ touched' = IF getReturn(cacheManager, key) # NULL THEN Touch(key) ELSE touched
        /\ cacheLast' = CacheCall("get", key)
        /\ cacheHad' = has(cacheManager, key)
        /\ UNCHANGED <<tokVars, svcVars, enhVars, themeVars, unitVars>>

CallSet ==
    \E key \in CacheKeys, value \in CacheValues :
        /\ cacheManager' = set(cacheManager, key, value)
        /\ touched' = Touch(key)
        /\ cacheLast' = CacheCall("set", key)
        /\ cacheHad' = has(cacheManager, key)
        /\ UNCHANGED <<tokVars, svcVars, enhVars, themeVars, unitVars>>

CallDelete ==
    \E key \in CacheKeys :
        /\ cacheManager' = delete(cacheManager, key)
        /\ cacheLast' = CacheCall("delete", key)
        /\ cacheHad' = has(cacheManager, key)
        /\ UNCHANGED <<touched, tokVars, svcVars, enhVars, themeVars, unitVars>>

CallClear ==
    /\ cacheManager' = clear(cacheManager)
    /\ cacheLast' = CacheCall("clear", <<>>)
    /\ cacheHad' = FALSE
    /\ UNCHANGED <<touched, tokVars, svcVars, enhVars, themeVars, unitVars>>

\* setMaxSize(n) with n >= 1
CallSetMaxSize ==
    \E newMaxSize \in 1..MaxCacheSize :
        /\ setMaxSizeReturns(cacheManager, newMaxSize)
        /\ cacheManager' = setMaxSize(cacheManager, newMaxSize)
        /\ cacheLast' = CacheCall("setMaxSize", <<>>)
        /\ cacheHad' = (size(cacheManager) > newMaxSize)
        /\ UNCHANGED <<touched, tokVars, svcVars, enhVars, themeVars, unitVars>>

\* getStats
getStats(m) == [size |-> size(m), maxSize |-> m.maxSize, hitRate |-> 0]

\* setMaxSize(0)
CallSetMaxSizeZero ==
    /\ setMaxSizeReturns(cacheManager, 0)
    /\ cacheManager' = setMaxSize(cacheManager, 0)
    /\ cacheLast' = CacheCall("setMaxSize", <<>>)
    /\ cacheHad' = (size(cacheManager) > 0)
    /\ UNCHANGED <<touched, tokVars, svcVars, enhVars, themeVars, unitVars>>


(***************************************************************************)
(* ConfigurationManager, ThemeManager and PreviewEnhancer.                 *)
(***************************************************************************)
MaxConcurrent == 2
MaxThemeChanges == 1

\* theme kinds and language identifiers, as sequences of code units
Dark == <<"d", "a", "r", "k">>
Light == <<"l", "i", "g", "h", "t">>
Java == <<"j", "a", "v", "a">>
Go == <<"g", "o">>

\* the themes the host can activate: their kind and their name
Themes == {[kind |-> Dark, name |-> "Dark+"], [kind |-> Light, name |-> "Light+"]}

\* the settings the host can hold (capacities and limits scaled down from
\* the defaults 100, 10000 and 5)
DefaultConfig ==
    [enableHighlighting |-> TRUE, enableCache |-> TRUE, cacheSize |-> MaxCacheSize,
     maxBlockSize |-> 1, concurrentRequests |-> MaxConcurrent]
Configs ==
    {DefaultConfig,
     [DefaultConfig EXCEPT !.enableHighlighting = FALSE],
     [DefaultConfig EXCEPT !.enableCache = FALSE],
     [DefaultConfig EXCEPT !.cacheSize = 1],
     [DefaultConfig EXCEPT !.concurrentRequests = 1]}

\* the tokenize requests the preview can send: two blocks, the first with
\* a common and with another language, the second with the code of the
\* first and with a code of more than twice maxBlockSize code units
EnhIds == {"block-1", "block-2"}
Requests ==
    {[id |-> "block-1", code |-> <<"a">>, language |-> Java],
     [id |-> "block-1", code |-> <<"a">>, language |-> Go],
     [id |-> "block-2", code |-> <<"a">>, language |-> Java],
     [id |-> "block-2", code |-> <<"a", "b", "c">>, language |-> Java]}

\* ConfigurationManager.validateNumber
validateNumber(value, min, max, defaultValue) ==
    IF value < min \/ value > max THEN defaultValue ELSE value

\* ConfigurationManager.getConcurrentRequests
getConcurrentRequests(config) == validateNumber(config.concurrentRequests, 1, 20, 5)

\* String.prototype.toLowerCase on a sequence of code units
ToLowerCaseSeq(str) == [i \in 1..Len(str) |-> ToLower(str[i])]

commonLanguages ==
    {<<"j", "a", "v", "a", "s", "c", "r", "i", "p", "t">>,
     <<"t", "y", "p", "e", "s", "c", "r", "i", "p", "t">>,
     <<"p", "y", "t", "h", "o", "n">>, Java, <<"c", "p", "p">>}

\* calculatePriority without the bonus for common languages
calculatePriority_NoLanguageBonus(request) ==
    100 + (IF Len(request.code) < 1000 THEN 50
           ELSE IF Len(request.code) < 5000 THEN 20 ELSE 0)

\* PreviewEnhancer.calculatePriority
calculatePriority(request) ==
    100 + (IF Len(request.code) < 1000 THEN 50
           ELSE IF Len(request.code) < 5000 THEN 20 ELSE 0)
        + (IF ToLowerCaseSeq(request.language) \in commonLanguages THEN 10 ELSE 0)

\* requestQueue.sort((a, b) => b.priority - a.priority): stable, descending
RECURSIVE InsertByPriority(_, _)
InsertByPriority(sorted, r) ==
    IF Len(sorted) = 0 THEN <<r>>
    ELSE IF sorted[Len(sorted)].priority >= r.priority THEN Append(sorted, r)
    ELSE Append(InsertByPriority(SubSeq(sorted, 1, Len(sorted) - 1), r),
                sorted[Len(sorted)])

\* requestQueue.sort left out: the queue stays in arrival order
sortQueue_ArrivalOrder(queue) == queue


RECURSIVE sortQueue(_)
sortQueue(queue) ==
    IF Len(queue) = 0 THEN <<>>
    ELSE InsertByPriority(sortQueue(SubSeq(queue, 1, Len(queue) - 1)), queue[Len(queue)])

\* queueRequest without the look-up of the id in the queue
queueRequest_Append(queue, prioritizedRequest) ==
    sortQueue(Append(queue, prioritizedRequest))

\* PreviewEnhancer.queueRequest
queueRequest(queue, prioritizedRequest) ==
    LET same == {i \in 1..Len(queue) : queue[i].request.id = prioritizedRequest.request.id}
    IN IF same # {} THEN
           LET existingIndex == CHOOSE i \in same : \A j \in same : i <= j
           IN IF prioritizedRequest.priority > queue[existingIndex].priority
              THEN sortQueue([queue EXCEPT ![existingIndex] = prioritizedRequest])
              ELSE queue
       ELSE sortQueue(Append(queue, prioritizedRequest))

\* what TokenizationService.tokenize resolves with: the tokens of the code
\* for the language, coloured from the theme data
TokenizedCode(c, lang, themeData) ==
    [language |-> lang, tokens |-> [text |-> c, theme |-> themeData.name]]

\* the calls of processRequest in progress form a bag: two calls may agree
\* in everything
Running(ts) == BagToSet(ts)
One(t) == SetToBag({t})

\* processRequest up to its first await: the theme data read, the cache
\* looked up; the call then waits for tokenize() or, on a hit, for
\* sendMessageToPreview
processRequest(m, request) ==
    LET themeData == currentThemeData
        cacheKey == generateKey(request.code, request.language, themeData.kind)
        cached == IF currentConfig.enableCache THEN getReturn(m, cacheKey) ELSE NULL
    IN [cacheManager |-> IF currentConfig.enableCache THEN get(m, cacheKey) ELSE m,
        task |-> [id |-> request.id, code |-> request.code, language |-> request.language,
                  themeData |-> themeData,
                  stage |-> IF cached # NULL THEN "send" ELSE "tokenize",
                  fromCache |-> cached # NULL,
                  tokenizedCode |-> cached]]

\* PreviewEnhancer.processQueue on st = [requestQueue, activeRequests,
\* cacheManager, tasks]
RECURSIVE processQueue(_)
processQueue(st) ==
    IF Len(st.requestQueue) > 0 /\ Cardinality(st.activeRequests) < maxConcurrentRequests
    THEN LET request == Head(st.requestQueue).request
             started == processRequest(st.cacheManager, request)
         IN processQueue([requestQueue |-> Tail(st.requestQueue),
                          activeRequests |-> st.activeRequests \cup {request.id},
                          cacheManager |-> started.cacheManager,
                          tasks |-> st.tasks (+) One(started.task)])
    ELSE st

EnhState ==
    [requestQueue |-> requestQueue, activeRequests |-> activeRequests,
     cacheManager |-> cacheManager, tasks |-> tasks]

EnhIdle ==
    /\ currentConfig = DefaultConfig
    /\ currentThemeData = [kind |-> Dark, name |-> "Dark+"]
    /\ requestQueue = <<>>
    /\ activeRequests = {}
    /\ batchTimeout = FALSE
    /\ themeChangeDebounceTimeout = "null"
    /\ maxConcurrentRequests = 5
    /\ tasks = EmptyBag
    /\ nThemeChanges = 0

\* activate() and the constructors: the settings and the theme are what the
\* host holds, the cache has the configured size or 0 when caching is off
InitEnh ==
    /\ currentConfig \in Configs
    /\ currentThemeData = [kind |-> Dark, name |-> "Dark+"]
    /\ cacheManager = CacheManager(IF currentConfig.enableCache
                                   THEN currentConfig.cacheSize ELSE 0)
    /\ touched = <<>>
    /\ cacheLast = CacheCall("none", <<>>)
    /\ cacheHad = FALSE
    /\ requestQueue = <<>>
    /\ activeRequests = {}
    /\ batchTimeout = FALSE
    /\ themeChangeDebounceTimeout = "null"
    /\ maxConcurrentRequests = getConcurrentRequests(currentConfig)
    /\ tasks = EmptyBag
    /\ nThemeChanges = 0

\* PreviewEnhancer.handleTokenizeRequest with queueRequest and
\* scheduleQueueProcessing
handleTokenizeRequest(request) ==
    /\ IF ~currentConfig.enableHighlighting THEN
           UNCHANGED <<requestQueue, batchTimeout>>
       ELSE IF request.id \in activeRequests THEN
           UNCHANGED <<requestQueue, batchTimeout>>
       ELSE IF Len(request.code) > currentConfig.maxBlockSize * 2 THEN
           UNCHANGED <<requestQueue, batchTimeout>>
       ELSE
           /\ requestQueue' = queueRequest(requestQueue,
                                  [request |-> request,
                                   priority |-> calculatePriority(request)])
           /\ batchTimeout' = TRUE
    /\ UNCHANGED <<currentConfig, currentThemeData, activeRequests,
                   themeChangeDebounceTimeout, maxConcurrentRequests, tasks,
                   nThemeChanges>>
    /\ UNCHANGED <<tokVars, svcVars, cacheVars, themeVars, unitVars>>

ReceiveTokenizeRequest == \E request \in Requests : handleTokenizeRequest(request)

\* the callback of the batch timer: processQueue(), batchTimeout = null
BatchTimeoutFires ==
    /\ batchTimeout
    /\ LET st == processQueue(EnhState)
       IN /\ requestQueue' = st.requestQueue
          /\ activeRequests' = st.activeRequests
          /\ cacheManager' = st.cacheManager
          /\ tasks' = st.tasks
    /\ batchTimeout' = FALSE
    /\ UNCHANGED <<currentConfig, currentThemeData, themeChangeDebounceTimeout,
                   maxConcurrentRequests, nThemeChanges>>
    /\ UNCHANGED <<tokVars, svcVars, touched, cacheLast, cacheHad, themeVars, unitVars>>

\* processRequest after await tokenize(): the result is cached when caching
\* is enabled, the response is handed to sendMessageToPreview
TokenizeResolvesFor(t) ==
    /\ t.stage = "tokenize"
    /\ LET tokenizedCode == TokenizedCode(t.code, t.language, t.themeData)
           cacheKey == generateKey(t.code, t.language, t.themeData.kind)
       IN /\ cacheManager' = IF currentConfig.enableCache
                             THEN set(cacheManager, cacheKey, tokenizedCode)
                             ELSE cacheManager
          /\ tasks' = (tasks (-) One(t))
                         (+) One([t EXCEPT !.stage = "send",
                                           !.tokenizedCode = tokenizedCode])
    /\ UNCHANGED <<currentConfig, currentThemeData, requestQueue, activeRequests,
                   batchTimeout, themeChangeDebounceTimeout, maxConcurrentRequests,
                   nThemeChanges>>
    /\ UNCHANGED <<tokVars, svcVars, touched, cacheLast, cacheHad, themeVars, unitVars>>

TokenizeResolves == \E t \in Running(tasks) : TokenizeResolvesFor(t)

\* sendMessageToPreview returns, processRequest resolves and the then-callback
\* of processQueue runs: activeRequests.delete(id), processQueue() when the
\* queue is not empty
RequestCompletesFor(t) ==
    /\ t.stage = "send"
    /\ LET after == [EnhState EXCEPT !.activeRequests = @ \ {t.id},
                                     !.tasks = @ (-) One(t)]
           st == IF Len(requestQueue) > 0 THEN processQueue(after) ELSE after
       IN /\ requestQueue' = st.requestQueue
          /\ activeRequests' = st.activeRequests
          /\ cacheManager' = st.cacheManager
          /\ tasks' = st.tasks
    /\ UNCHANGED <<currentConfig, currentThemeData, batchTimeout,
                   themeChangeDebounceTimeout, maxConcurrentRequests, nThemeChanges>>
    /\ UNCHANGED <<tokVars, svcVars, touched, cacheLast, cacheHad, themeVars, unitVars>>

RequestCompletes == \E t \in Running(tasks) : RequestCompletesFor(t)

\* the host activates a colour theme: ThemeManager.handleThemeChange updates
\* its theme data and fires; PreviewEnhancer.handleThemeChange restarts its
\* debounce timer
ThemeChanges ==
    /\ nThemeChanges < MaxThemeChanges
    /\ \E theme \in Themes : currentThemeData' = theme
    /\ themeChangeDebounceTimeout' = "pending"
    /\ nThemeChanges' = nThemeChanges + 1
    /\ UNCHANGED <<currentConfig, requestQueue, activeRequests, batchTimeout,
                   maxConcurrentRequests, tasks>>
    /\ UNCHANGED <<tokVars, svcVars, cacheVars, themeVars, unitVars>>

\* the callback of the debounce timer of handleThemeChange
ThemeChangeTimeoutFires ==
    /\ themeChangeDebounceTimeout = "pending"
    /\ cacheManager' = clear(cacheManager)
    /\ requestQueue' = <<>>
    /\ activeRequests' = {}
    /\ themeChangeDebounceTimeout' = "expired"
    /\ UNCHANGED <<currentConfig, currentThemeData, batchTimeout, maxConcurrentRequests,
                   tasks, nThemeChanges>>
    /\ UNCHANGED <<tokVars, svcVars, touched, cacheLast, cacheHad, themeVars, unitVars>>

\* PreviewEnhancer.handleConfigurationChange(config) on the CacheManager
configuredCache(m, config) ==
    LET resized == IF config.cacheSize # 0 THEN setMaxSize(m, config.cacheSize) ELSE m
    IN IF ~config.enableCache THEN clear(resized) ELSE resized

\* the host's settings change: ConfigurationManager.handleConfigurationChange
\* stores them and fires; PreviewEnhancer.handleConfigurationChange
ConfigurationChangesTo(newConfig) ==
    /\ newConfig # currentConfig
    /\ currentConfig' = newConfig
    /\ maxConcurrentRequests' = IF newConfig.concurrentRequests # 0
                                THEN newConfig.concurrentRequests
                                ELSE maxConcurrentRequests
    /\ newConfig.cacheSize # 0 => setMaxSizeReturns(cacheManager, newConfig.cacheSize)
    /\ cacheManager' = configuredCache(cacheManager, newConfig)
    /\ UNCHANGED <<currentThemeData, requestQueue, activeRequests, batchTimeout,
                   themeChangeDebounceTimeout, tasks, nThemeChanges>>
    /\ UNCHANGED <<tokVars, svcVars, touched, cacheLast, cacheHad, themeVars, unitVars>>

ConfigurationChanges == \E newConfig \in Configs : ConfigurationChangesTo(newConfig)

(***************************************************************************)
(* ThemeManager.  A colour is a string, written as the sequence of its     *)
(* code units; a colours object is a function from its own keys.           *)
(***************************************************************************)
HighContrast == <<"h", "i", "g", "h", "C", "o", "n", "t", "r", "a", "s", "t">>

\* vscode.ColorThemeKind: Light = 1, Dark = 2, HighContrast = 3,
\* HighContrastLight = 4
ColorThemeKinds == 1..4

\* mapThemeKind
mapThemeKind(kind) ==
    CASE kind = 1 -> Light
      [] kind = 2 -> Dark
      [] kind \in {3, 4} -> HighContrast
      [] OTHER -> Dark

\* /^#[0-9a-fA-F]{6}([0-9a-fA-F]{2})?$/.test(value)
IsHexDigit(c) ==
    c \in Digits \cup {"a", "b", "c", "d", "e", "f", "A", "B", "C", "D", "E", "F"}
colorRegexTest(value) ==
    /\ Len(value) \in {7, 9}
    /\ value[1] = "#"
    /\ \A i \in 2..Len(value) : IsHexDigit(value[i])

\* extractTokenColors: the colour tables of the three kinds

LightTokenColors ==
    "comment" :> <<"#", "0", "0", "8", "0", "0", "0">> @@
    "string" :> <<"#", "a", "3", "1", "5", "1", "5">> @@
    "keyword" :> <<"#", "0", "0", "0", "0", "f", "f">> @@
    "number" :> <<"#", "0", "9", "8", "6", "5", "8">> @@
    "function" :> <<"#", "7", "9", "5", "e", "2", "6">> @@
    "class" :> <<"#", "2", "6", "7", "f", "9", "9">> @@
    "variable" :> <<"#", "0", "0", "1", "0", "8", "0">> @@
    "constant" :> <<"#", "0", "0", "7", "0", "c", "1">> @@
    "operator" :> <<"#", "0", "0", "0", "0", "0", "0">> @@
    "type" :> <<"#", "2", "6", "7", "f", "9", "9">> @@
    "parameter" :> <<"#", "0", "0", "1", "0", "8", "0">> @@
    "property" :> <<"#", "0", "0", "1", "0", "8", "0">> @@
    "punctuation" :> <<"#", "0", "0", "0", "0", "0", "0">> @@
    "regexp" :> <<"#", "8", "1", "1", "f", "3", "f">> @@
    "storage" :> <<"#", "0", "0", "0", "0", "f", "f">> @@
    "support" :> <<"#", "2", "6", "7", "f", "9", "9">> @@
    "entity" :> <<"#", "7", "9", "5", "e", "2", "6">> @@
    "tag" :> <<"#", "8", "0", "0", "0", "0", "0">> @@
    "attribute" :> <<"#", "f", "f", "0", "0", "0", "0">> @@
    "markup.heading" :> <<"#", "0", "0", "0", "0", "f", "f">> @@
    "markup.bold" :> <<"#", "0", "0", "0", "0", "0", "0">> @@
    "markup.italic" :> <<"#", "0", "0", "0", "0", "0", "0">> @@
    "invalid" :> <<"#", "c", "d", "3", "1", "3", "1">> @@
    "namespace" :> <<"#", "2", "6", "7", "f", "9", "9">> @@
    "enumMember" :> <<"#", "0", "0", "7", "0", "c", "1">> @@
    "decorator" :> <<"#", "7", "9", "5", "e", "2", "6">> @@
    "label" :> <<"#", "0", "0", "0", "0", "f", "f">>

DarkTokenColors ==
    "comment" :> <<"#", "6", "a", "9", "9", "5", "5">> @@
    "string" :> <<"#", "c", "e", "9", "1", "7", "8">> @@
    "keyword" :> <<"#", "5", "6", "9", "c", "d", "6">> @@
    "number" :> <<"#", "b", "5", "c", "e", "a", "8">> @@
    "function" :> <<"#", "d", "c", "d", "c", "a", "a">> @@
    "class" :> <<"#", "4", "e", "c", "9", "b", "0">> @@
    "variable" :> <<"#", "9", "c", "d", "c", "f", "e">> @@
    "constant" :> <<"#", "4", "f", "c", "1", "f", "f">> @@
    "operator" :> <<"#", "d", "4", "d", "4", "d", "4">> @@
    "type" :> <<"#", "4", "e", "c", "9", "b", "0">> @@
    "parameter" :> <<"#", "9", "c", "d", "c", "f", "e">> @@
    "property" :> <<"#", "9", "c", "d", "c", "f", "e">> @@
    "punctuation" :> <<"#", "d", "4", "d", "4", "d", "4">> @@
    "regexp" :> <<"#", "d", "1", "6", "9", "6", "9">> @@
    "storage" :> <<"#", "5", "6", "9", "c", "d", "6">> @@
    "support" :> <<"#", "4", "e", "c", "9", "b", "0">> @@
    "entity" :> <<"#", "d", "c", "d", "c", "a", "a">> @@
    "tag" :> <<"#", "5", "6", "9", "c", "d", "6">> @@
    "attribute" :> <<"#", "9", "c", "d", "c", "f", "e">> @@
    "markup.heading" :> <<"#", "5", "6", "9", "c", "d", "6">> @@
    "markup.bold" :> <<"#", "d", "4", "d", "4", "d", "4">> @@
    "markup.italic" :> <<"#", "d", "4", "d", "4", "d", "4">> @@
    "invalid" :> <<"#", "f", "4", "4", "7", "4", "7">> @@
    "namespace" :> <<"#", "4", "e", "c", "9", "b", "0">> @@
    "enumMember" :> <<"#", "4", "f", "c", "1", "f", "f">> @@
    "decorator" :> <<"#", "d", "c", "d", "c", "a", "a">> @@
    "label" :> <<"#", "5", "6", "9", "c", "d", "6">>

HighContrastTokenColors ==
    "comment" :> <<"#", "7", "c", "a", "6", "6", "8">> @@
    "string" :> <<"#", "c", "e", "9", "1", "7", "8">> @@
    "keyword" :> <<"#", "5", "6", "9", "c", "d", "6">> @@
    "number" :> <<"#", "b", "5", "c", "e", "a", "8">> @@
    "function" :> <<"#", "d", "c", "d", "c", "a", "a">> @@
    "class" :> <<"#", "4", "e", "c", "9", "b", "0">> @@
    "variable" :> <<"#", "f", "f", "f", "f", "f", "f">> @@
    "constant" :> <<"#", "4", "f", "c", "1", "f", "f">> @@
    "operator" :> <<"#", "f", "f", "f", "f", "f", "f">> @@
    "type" :> <<"#", "4", "e", "c", "9", "b", "0">> @@
    "parameter" :> <<"#", "f", "f", "f", "f", "f", "f">> @@
    "property" :> <<"#", "f", "f", "f", "f", "f", "f">> @@
    "punctuation" :> <<"#", "f", "f", "f", "f", "f", "f">> @@
    "regexp" :> <<"#", "d", "1", "6", "9", "6", "9">> @@
    "storage" :> <<"#", "5", "6", "9", "c", "d", "6">> @@
    "support" :> <<"#", "4", "e", "c", "9", "b", "0">> @@
    "entity" :> <<"#", "d", "c", "d", "c", "a", "a">> @@
    "tag" :> <<"#", "5", "6", "9", "c", "d", "6">> @@
    "attribute" :> <<"#", "f", "f", "f", "f", "f", "f">> @@
    "markup.heading" :> <<"#", "5", "6", "9", "c", "d", "6">> @@
    "markup.bold" :> <<"#", "f", "f", "f", "f", "f", "f">> @@
    "markup.italic" :> <<"#", "f", "f", "f", "f", "f", "f">> @@
    "invalid" :> <<"#", "f", "f", "0", "0", "0", "0">> @@
    "namespace" :> <<"#", "4", "e", "c", "9", "b", "0">> @@
    "enumMember" :> <<"#", "4", "f", "c", "1", "f", "f">> @@
    "decorator" :> <<"#", "d", "c", "d", "c", "a", "a">> @@
    "label" :> <<"#", "5", "6", "9", "c", "d", "6">>

extractTokenColors(kind) ==
    IF kind = Light THEN LightTokenColors
    ELSE IF kind = Dark THEN DarkTokenColors
    ELSE HighContrastTokenColors


\* getBackgroundColor
getBackgroundColor(kind) ==
    IF kind = Light THEN <<"#", "f", "f", "f", "f", "f", "f">>
    ELSE IF kind = Dark THEN <<"#", "1", "e", "1", "e", "1", "e">>
    ELSE <<"#", "0", "0", "0", "0", "0", "0">>


\* getForegroundColor
getForegroundColor(kind) ==
    IF kind = Light THEN <<"#", "0", "0", "0", "0", "0", "0">>
    ELSE IF kind = Dark THEN <<"#", "d", "4", "d", "4", "d", "4">>
    ELSE <<"#", "f", "f", "f", "f", "f", "f">>


\* getBorderColor
getBorderColor(kind) ==
    IF kind = Light THEN <<"#", "d", "0", "d", "0", "d", "0">>
    ELSE IF kind = Dark THEN <<"#", "4", "0", "4", "0", "4", "0">>
    ELSE <<"#", "6", "f", "c", "3", "d", "f">>


\* getBorderColorSubtle
getBorderColorSubtle(kind) ==
    IF kind = Light THEN <<"#", "e", "0", "e", "0", "e", "0">>
    ELSE IF kind = Dark THEN <<"#", "3", "0", "3", "0", "3", "0">>
    ELSE <<"#", "4", "c", "9", "4", "b", "0">>


\* getButtonBackground
getButtonBackground(kind) ==
    IF kind = Light THEN <<"#", "f", "3", "f", "3", "f", "3", "c", "c">>
    ELSE IF kind = Dark THEN <<"#", "2", "5", "2", "5", "2", "6", "c", "c">>
    ELSE <<"#", "0", "0", "0", "0", "0", "0", "c", "c">>


\* getButtonForeground
getButtonForeground(kind) ==
    IF kind = Light THEN <<"#", "3", "3", "3", "3", "3", "3">>
    ELSE IF kind = Dark THEN <<"#", "c", "c", "c", "c", "c", "c">>
    ELSE <<"#", "f", "f", "f", "f", "f", "f">>


\* getButtonHoverBackground
getButtonHoverBackground(kind) ==
    IF kind = Light THEN <<"#", "e", "8", "e", "8", "e", "8">>
    ELSE IF kind = Dark THEN <<"#", "2", "a", "2", "d", "2", "e">>
    ELSE <<"#", "1", "a", "1", "a", "1", "a">>


\* getAccentColor
getAccentColor(kind) ==
    IF kind = Light THEN <<"#", "0", "0", "7", "a", "c", "c">>
    ELSE IF kind = Dark THEN <<"#", "5", "6", "9", "c", "d", "6">>
    ELSE <<"#", "6", "f", "c", "3", "d", "f">>

\* what a property lookup on a plain object finds under a name of
\* Object.prototype (a function), written as a one-element sequence that
\* is no string
ObjectPrototypeMember == <<"function">>
ObjectPrototypeKeys == {"constructor", "toString", "valueOf", "hasOwnProperty"}

\* obj[key] on a plain object: own property, else the prototype's
GetProperty(obj, key) ==
    IF key \in DOMAIN obj THEN obj[key]
    ELSE IF key \in ObjectPrototypeKeys THEN ObjectPrototypeMember
    ELSE Undefined

\* a || b
Or(a, b) == IF Truthy(a) THEN a ELSE b

\* { ...a, ...b }
Spread(a, b) ==
    [key \in DOMAIN a \cup DOMAIN b |-> IF key \in DOMAIN b THEN b[key] ELSE a[key]]

\* requiredTypes of validateAndFixColors
RequiredTypes ==
    {"comment", "string", "keyword", "number", "function", "class", "variable",
     "constant", "operator", "type", "parameter", "property", "punctuation", "regexp"}

\* no entry is repaired and no missing type is added
validateAndFixColors_NoFix(colors, kind) == colors

\* validateAndFixColors: an entry that is no hex colour is replaced by the
\* fallback colour of its key or the foreground; then every required type
\* without a truthy entry gets its fallback colour
validateAndFixColors(colors, kind) ==
    LET fallbackColors == extractTokenColors(kind)
        fixedColors == [key \in DOMAIN colors |->
                           IF colorRegexTest(colors[key]) THEN colors[key]
                           ELSE Or(GetProperty(fallbackColors, key),
                                   getForegroundColor(kind))]
    IN [key \in DOMAIN fixedColors \cup RequiredTypes |->
           IF key \in RequiredTypes /\ ~Truthy(GetProperty(fixedColors, key))
           THEN Or(GetProperty(fallbackColors, key), getForegroundColor(kind))
           ELSE fixedColors[key]]

\* the descriptor both extractThemeData and createFallbackTheme build
ThemeData(kind, colors) ==
    [kind |-> kind,
     colors |-> colors,
     background |-> getBackgroundColor(kind),
     foreground |-> getForegroundColor(kind),
     borderColor |-> getBorderColor(kind),
     borderColorSubtle |-> getBorderColorSubtle(kind),
     buttonBackground |-> getButtonBackground(kind),
     buttonForeground |-> getButtonForeground(kind),
     buttonHoverBackground |-> getButtonHoverBackground(kind),
     accentColor |-> getAccentColor(kind)]

\* extractThemeData(theme) with this.customThemeOverrides
extractThemeData(theme, customThemeOverrides) ==
    LET kind == mapThemeKind(theme)
    IN ThemeData(kind,
                 validateAndFixColors(Spread(extractTokenColors(kind),
                                             customThemeOverrides), kind))

\* createFallbackTheme(theme.kind)
createFallbackTheme(theme) ==
    ThemeData(mapThemeKind(theme), extractTokenColors(mapThemeKind(theme)))

\* requiredTokenTypes of validateThemeData
RequiredTokenTypes == {"comment", "string", "keyword", "number", "function"}

\* validateThemeData
validateThemeData(theme) ==
    /\ Truthy(theme.kind) /\ Truthy(theme.background) /\ Truthy(theme.foreground)
    /\ theme.kind \in {Light, Dark, HighContrast}
    /\ colorRegexTest(theme.background) /\ colorRegexTest(theme.foreground)
    /\ \A tokenType \in RequiredTokenTypes : Truthy(GetProperty(theme.colors, tokenType))

\* updateThemeData with vscode.window.activeColorTheme = theme
updateThemeData(tm, theme) ==
    LET extracted == extractThemeData(theme, tm.customThemeOverrides)
    IN [tm EXCEPT !.currentThemeData =
           IF validateThemeData(extracted) THEN extracted
           ELSE createFallbackTheme(theme)]

\* getThemeData
getThemeData(tm, theme) ==
    IF tm.currentThemeData = NULL
    THEN updateThemeData(tm, theme).currentThemeData
    ELSE tm.currentThemeData

\* handleThemeChange(theme): the object afterwards; the event carries its
\* currentThemeData
handleThemeChange(tm, theme) ==
    LET updated == updateThemeData(tm, theme)
    IN IF updated.currentThemeData # NULL /\ validateThemeData(updated.currentThemeData)
       THEN updated
       ELSE [updated EXCEPT !.currentThemeData = createFallbackTheme(theme)]

\* setThemeOverrides(overrides) and clearThemeOverrides()
setThemeOverrides(tm, overrides, theme) ==
    updateThemeData([tm EXCEPT !.customThemeOverrides =
                        Spread(tm.customThemeOverrides, overrides)], theme)
clearThemeOverrides(tm, theme) ==
    updateThemeData([tm EXCEPT !.customThemeOverrides = EmptyMap], theme)

\* constructor: updateThemeData(), then loadCustomThemeOverrides() with the
\* themeOverrides setting (not set: the overrides stay the empty object)
loadCustomThemeOverrides(tm, overrides) ==
    [tm EXCEPT !.customThemeOverrides = overrides]
ThemeManager(theme, overrides) ==
    loadCustomThemeOverrides(
        updateThemeData([currentThemeData |-> NULL, customThemeOverrides |-> EmptyMap],
                        theme),
        overrides)

\* Override objects: a required token type, a type of the tables that is
\* not required, a name the tables do not have and a name of
\* Object.prototype, each with a 6-digit and an 8-digit hex colour, the
\* empty string, a colour name and a hex colour of the wrong length.
OverrideKeys == {"comment", "storage", "custom", "constructor"}
OverrideValues ==
    {<<"#", "A", "b", "0", "1", "2", "f">>,
     <<"#", "A", "b", "0", "1", "2", "f", "8", "0">>,
     <<>>,
     <<"r", "e", "d">>,
     <<"#", "f", "f", "f">>}
Overrides == {EmptyMap} \cup {key :> value : key \in OverrideKeys, value \in OverrideValues}

ThemeIdle ==
    /\ activeColorTheme = 2
    /\ themeManager = ThemeManager(2, EmptyMap)
    /\ themeEvent = NULL
    /\ bgColor = <<>>
    /\ detectedKind = <<>>

\* the host activates a colour theme and calls handleThemeChange
ActiveColorThemeChanges ==
    \E theme \in ColorThemeKinds :
    \E tm \in {handleThemeChange(themeManager, theme)} :
        /\ activeColorTheme' = theme
        /\ themeManager' = tm
        /\ themeEvent' = tm.currentThemeData
        /\ UNCHANGED <<bgColor, detectedKind>>
        /\ UNCHANGED <<tokVars, svcVars, cacheVars, enhVars, unitVars>>

CallSetThemeOverrides ==
    \E overrides \in Overrides :
    \E tm \in {setThemeOverrides(themeManager, overrides, activeColorTheme)} :
        /\ themeManager' = tm
        /\ themeEvent' = IF tm.currentThemeData # NULL THEN tm.currentThemeData
                         ELSE themeEvent
        /\ UNCHANGED <<activeColorTheme, bgColor, detectedKind>>
        /\ UNCHANGED <<tokVars, svcVars, cacheVars, enhVars, unitVars>>

CallClearThemeOverrides ==
    \E tm \in {clearThemeOverrides(themeManager, activeColorTheme)} :
        /\ themeManager' = tm
        /\ themeEvent' = IF tm.currentThemeData # NULL THEN tm.currentThemeData
                         ELSE themeEvent
        /\ UNCHANGED <<activeColorTheme, bgColor, detectedKind>>
        /\ UNCHANGED <<tokVars, svcVars, cacheVars, enhVars, unitVars>>


(***************************************************************************)
(* Preview script: detectThemeKind and parseColor.  NaN is written as a    *)
(* number no parse produces.  The luminance is kept as the integer         *)
(* 299 R + 587 G + 114 B, which is 255000 times the luminance; the code's  *)
(* double differs from the exact value by less than 1e-15, so that the     *)
(* comparisons agree unless the exact value is a threshold itself.         *)
(***************************************************************************)
NaN == -999999

HexDigitsSeq ==
    <<"0", "1", "2", "3", "4", "5", "6", "7", "8", "9", "a", "b", "c", "d", "e", "f">>
HexUpperSeq ==
    <<"0", "1", "2", "3", "4", "5", "6", "7", "8", "9", "A", "B", "C", "D", "E", "F">>

\* the value of a digit in the radix, -1 when the unit is no digit of it
DigitValue(c, radix) ==
    IF \E k \in 1..radix : HexDigitsSeq[k] = c \/ HexUpperSeq[k] = c
    THEN (CHOOSE k \in 1..radix : HexDigitsSeq[k] = c \/ HexUpperSeq[k] = c) - 1
    ELSE -1

\* \s
IsWhiteSpace(c) == c \in {" ", "\t", "\n", "\r"}

\* the code unit at 1-based position i, "" past the end
UnitAt(s, i) == IF i \in 1..Len(s) THEN s[i] ELSE ""

\* the position after the longest run of units satisfying the test from i
RECURSIVE DigitRunEnd(_, _, _)
DigitRunEnd(s, i, radix) ==
    IF i <= Len(s) /\ DigitValue(s[i], radix) >= 0
    THEN DigitRunEnd(s, i + 1, radix) ELSE i
RECURSIVE WhiteSpaceEnd(_, _)
WhiteSpaceEnd(s, i) ==
    IF i <= Len(s) /\ IsWhiteSpace(s[i]) THEN WhiteSpaceEnd(s, i + 1) ELSE i

\* the number the digits s[i..j-1] write in the radix
RECURSIVE DigitsValue(_, _, _, _)
DigitsValue(s, i, j, radix) ==
    IF j <= i THEN 0
    ELSE DigitsValue(s, i, j - 1, radix) * radix + DigitValue(s[j - 1], radix)

\* parseInt(s, radix): leading white space, a sign, for radix 16 a 0x
\* prefix, then the longest run of digits; NaN without a digit
parseInt(s, radix) ==
    LET i0 == WhiteSpaceEnd(s, 1)
        negative == UnitAt(s, i0) = "-"
        i1 == IF UnitAt(s, i0) \in {"-", "+"} THEN i0 + 1 ELSE i0
        i2 == IF radix = 16 /\ UnitAt(s, i1) = "0" /\ UnitAt(s, i1 + 1) \in {"x", "X"}
              THEN i1 + 2 ELSE i1
        j == DigitRunEnd(s, i2, radix)
    IN IF j = i2 THEN NaN
       ELSE IF negative THEN 0 - DigitsValue(s, i2, j, radix)
       ELSE DigitsValue(s, i2, j, radix)

\* color.replace('#', ''): the first '#' removed
RemoveFirstHash(s) ==
    IF \E i \in 1..Len(s) : s[i] = "#"
    THEN LET i == CHOOSE i \in 1..Len(s) : s[i] = "#" /\ \A k \in 1..(i - 1) : s[k] # "#"
         IN SubSeq(s, 1, i - 1) \o SubSeq(s, i + 1, Len(s))
    ELSE s

\* /rgba?\((\d+),\s*(\d+),\s*(\d+)/ tried at position i: the three groups
\* as positions, or NULL
RgbMatchAt(s, i) ==
    LET p == IF UnitAt(s, i + 3) = "a" THEN i + 4 ELSE i + 3
        r1 == p + 1
        r2 == DigitRunEnd(s, r1, 10)
        g1 == WhiteSpaceEnd(s, r2 + 1)
        g2 == DigitRunEnd(s, g1, 10)
        b1 == WhiteSpaceEnd(s, g2 + 1)
        b2 == DigitRunEnd(s, b1, 10)
    IN IF /\ UnitAt(s, i) = "r" /\ UnitAt(s, i + 1) = "g" /\ UnitAt(s, i + 2) = "b"
          /\ UnitAt(s, p) = "("
          /\ r2 > r1 /\ UnitAt(s, r2) = ","
          /\ g2 > g1 /\ UnitAt(s, g2) = ","
          /\ b2 > b1
       THEN [r |-> SubSeq(s, r1, r2 - 1), g |-> SubSeq(s, g1, g2 - 1),
             b |-> SubSeq(s, b1, b2 - 1)]
       ELSE NULL

\* color.match(...): the leftmost match, or NULL
RgbMatch(s) ==
    IF \E i \in 1..Len(s) : RgbMatchAt(s, i) # NULL
    THEN RgbMatchAt(s, CHOOSE i \in 1..Len(s) :
                           /\ RgbMatchAt(s, i) # NULL
                           /\ \A k \in 1..(i - 1) : RgbMatchAt(s, k) = NULL)
    ELSE NULL

\* only rgb()/rgba() colours are parsed
parseColor_RgbOnly(color) ==
    IF RgbMatch(color) # NULL
    THEN [r |-> parseInt(RgbMatch(color).r, 10),
          g |-> parseInt(RgbMatch(color).g, 10),
          b |-> parseInt(RgbMatch(color).b, 10)]
    ELSE NULL

\* parseColor
parseColor(color) ==
    LET hex == RemoveFirstHash(color)
    IN IF UnitAt(color, 1) = "#" /\ Len(hex) = 6
       THEN [r |-> parseInt(SubSeq(hex, 1, 2), 16),
             g |-> parseInt(SubSeq(hex, 3, 4), 16),
             b |-> parseInt(SubSeq(hex, 5, 6), 16)]
       ELSE IF RgbMatch(color) # NULL
       THEN [r |-> parseInt(RgbMatch(color).r, 10),
             g |-> parseInt(RgbMatch(color).g, 10),
             b |-> parseInt(RgbMatch(color).b, 10)]
       ELSE NULL

\* 255000 * luminance; NaN when a channel is NaN
Luminance255000(rgb) ==
    IF NaN \in {rgb.r, rgb.g, rgb.b} THEN NaN
    ELSE 299 * rgb.r + 587 * rgb.g + 114 * rgb.b

\* a < b and a > b on numbers: false when either is NaN
LessThan(a, b) == a # NaN /\ b # NaN /\ a < b
GreaterThan(a, b) == a # NaN /\ b # NaN /\ a > b

\* the high-contrast test left out
detectThemeKind_NoHighContrast(color) ==
    IF parseColor(color) = NULL THEN Dark
    ELSE IF GreaterThan(Luminance255000(parseColor(color)), 127500) THEN Light
    ELSE Dark

\* detectThemeKind: 0.05, 0.95 and 0.5 times 255000
detectThemeKind(color) ==
    LET rgb == parseColor(color)
    IN IF rgb = NULL THEN Dark
       ELSE LET luminance == Luminance255000(rgb)
            IN IF LessThan(luminance, 12750) \/ GreaterThan(luminance, 242250)
               THEN HighContrast
               ELSE IF GreaterThan(luminance, 127500) THEN Light
               ELSE Dark

\* the action: detectThemeKind(bgColor) is called
CallDetectThemeKind ==
    /\ detectedKind = <<>>
    /\ detectedKind' = detectThemeKind(bgColor)
    /\ UNCHANGED <<activeColorTheme, themeManager, themeEvent, bgColor>>
    /\ UNCHANGED <<tokVars, svcVars, cacheVars, enhVars, unitVars>>


(***************************************************************************)
(* The components checked one call at a time: generateKey,                 *)
(* PerformanceMonitor and calculatePriority, before their first call.      *)
(***************************************************************************)
KeyIdle ==
    /\ keyArgs = [code1 |-> <<>>, code2 |-> <<>>, language |-> Java, themeKind |-> Dark]
    /\ keyPair = <<>>

\* new Map()
NoTimers == [id \in {} |-> 0]
NoMetrics == [name \in {} |-> <<>>]

\* constructor(enabled)
PerformanceMonitor(enabled) ==
    [enabled |-> enabled, timers |-> NoTimers, metrics |-> NoMetrics]

\* a call on the monitor: its argument (a label, an id, a metric name),
\* what it returned, and whether it found what it was to act on (endTimer:
\* its timer pending; clear and setEnabled: metrics or timers to remove)
PerfCall(opName, arg, returned, had) ==
    [op |-> opName, arg |-> arg, returned |-> returned, had |-> had]

PerfIdle ==
    /\ performanceMonitor = PerformanceMonitor(FALSE)
    /\ perfNow = 1
    /\ perfLast = PerfCall("none", <<>>, <<>>, FALSE)
    /\ perfRecorded = NoMetrics
    /\ perfLabels = NoMetrics

PrioIdle ==
    /\ prioRequest = [id |-> "block-1", code |-> <<>>, language |-> <<>>]
    /\ prioResult = 0

ColorIdle ==
    /\ colorTheme = createFallbackTheme(2)
    /\ coloredTokens = <<>>
    /\ colorType = "none"
    /\ colorResult = <<>>

PreviewIdle ==
    /\ codeBlocks = <<>>
    /\ processedBlocks = {}
    /\ currentTheme = "null"
    /\ bodyTheme = "dark"
    /\ scanTimeout = "null"
    /\ themeMutations = FALSE
    /\ processedNow = {}
    /\ dateNow = 0
    /\ nDomChanges = 0

UnitIdle == KeyIdle /\ PerfIdle /\ PrioIdle /\ ColorIdle /\ PreviewIdle


(***************************************************************************)
(* SpecTok: the three tokenizers applied to one bounded input.             *)
(***************************************************************************)
InitTokInput ==
    /\ code \in Strings
    /\ language \in TokLanguages
    /\ tokens = <<>>
    /\ op = "none"

TokIdle == code = <<>> /\ language = "js" /\ tokens = <<>> /\ op = "none"

CallCreateMinimalHighlighting ==
    /\ tokens' = createMinimalHighlighting(code, language).tokens
    /\ op' = "createMinimalHighlighting"
    /\ UNCHANGED <<code, language, svcVars, cacheVars, enhVars, themeVars, unitVars>>

CallSimpleTokenize ==
    /\ tokens' = simpleTokenize(code, language)
    /\ op' = "simpleTokenize"
    /\ UNCHANGED <<code, language, svcVars, cacheVars, enhVars, themeVars, unitVars>>

CallTokenizeCode ==
    /\ tokens' = tokenizeCode(code, language)
    /\ op' = "tokenizeCode"
    /\ UNCHANGED <<code, language, svcVars, cacheVars, enhVars, themeVars, unitVars>>

InitTok == InitTokInput /\ SvcIdle /\ UnitIdle /\ ThemeIdle /\ CacheIdle /\ EnhIdle

NextTok ==
    \/ CallCreateMinimalHighlighting
    \/ CallSimpleTokenize
    \/ CallTokenizeCode

SpecTok == InitTok /\ [][NextTok]_vars

(***************************************************************************)
(* SpecSvc: one call of tokenize() with bounded arguments.                 *)
(***************************************************************************)
SvcLanguages == {"js", "cobol"}
SvcMaxBlockSizes == {1, MaxLen}

InitSvc == TokIdle /\ SvcIdle /\ UnitIdle /\ ThemeIdle /\ CacheIdle /\ EnhIdle

CallTokenize ==
    \E c \in SvcStrings, l \in SvcLanguages, m \in SvcMaxBlockSizes : Tokenize(c, l, m)

NextSvc ==
    \/ CallTokenize
    \/ ValidateLanguageReturns
    \/ OpenTextDocumentReturns
    \/ OpenTextDocumentThrows
    \/ SemanticTokensReturn
    \/ TimeoutFires

SpecSvc == InitSvc /\ [][NextSvc]_vars

\* The steps of NextSvc that append "timeout" to svcLog are the TimeoutFires
\* steps and no others, and such a step is possible exactly when a race is
\* pending: TimeoutStep states TimeoutFires by its effect on the log.
TimeoutStep == svcPc = "race" /\ svcLog' = Append(svcLog, "timeout")

TimeoutStepIsTimeoutFires == [][TimeoutStep <=> TimeoutFires]_vars

\* The timer of a pending race is a setTimeout: the event loop runs it.
\* Weak fairness of TimeoutFires, stated on TimeoutStep.
FairSpecSvc == SpecSvc /\ WF_svcLog(TimeoutStep)

(***************************************************************************)
(* SpecCache: a CacheManager of capacity at least 1 called with non-empty  *)
(* keys.  SpecCacheZero: a CacheManager constructed with capacity 0.       *)
(***************************************************************************)
InitCache ==
    /\ \E maxSize \in 1..MaxCacheSize : cacheManager = CacheManager(maxSize)
    /\ touched = <<>>
    /\ cacheLast = CacheCall("none", <<>>)
    /\ cacheHad = FALSE
    /\ TokIdle /\ SvcIdle /\ UnitIdle /\ ThemeIdle /\ EnhIdle

NextCache ==
    \/ CallGet
    \/ CallSet
    \/ CallDelete
    \/ CallClear
    \/ CallSetMaxSize

SpecCache == InitCache /\ [][NextCache]_vars

InitCacheZero == CacheIdle /\ TokIdle /\ SvcIdle /\ UnitIdle /\ ThemeIdle /\ EnhIdle

NextCacheZero ==
    \/ CallGet
    \/ CallSet
    \/ CallDelete
    \/ CallClear

SpecCacheZero == InitCacheZero /\ [][NextCacheZero]_vars

(***************************************************************************)
(* Spec: the extension after activation, with its preview, its host's      *)
(* themes and settings, and the tokenizations in progress.                 *)
(***************************************************************************)
Init == InitEnh /\ TokIdle /\ SvcIdle /\ UnitIdle /\ ThemeIdle

Next ==
    \/ ReceiveTokenizeRequest
    \/ BatchTimeoutFires
    \/ TokenizeResolves
    \/ RequestCompletes
    \/ ThemeChanges
    \/ ThemeChangeTimeoutFires
    \/ ConfigurationChanges

Spec == Init /\ [][Next]_vars

(***************************************************************************)
(* SpecQueue: the pending queue of PreviewEnhancer with three blocks of    *)
(* two priorities, under a fixed theme.                                    *)
(***************************************************************************)
QueueIds == {"block-1", "block-2", "block-3"}
QueueRequests == {[id |-> id, code |-> <<"a">>, language |-> l] : id \in QueueIds, l \in {Java, Go}}

ReceiveQueueRequest == \E request \in QueueRequests : handleTokenizeRequest(request)

NextQueue ==
    \/ ReceiveQueueRequest
    \/ BatchTimeoutFires
    \/ TokenizeResolves
    \/ RequestCompletes
    \/ ConfigurationChanges

SpecQueue == Init /\ [][NextQueue]_vars


\* The steps of the call of processRequest for one block.
TokenizeResolvesOf(id) == \E t \in Running(tasks) : t.id = id /\ TokenizeResolvesFor(t)
RequestCompletesOf(id) == \E t \in Running(tasks) : t.id = id /\ RequestCompletesFor(t)

\* The same steps and the firing of the batch timer, each stated by its
\* effect on one variable: the batch timer is disarmed; the call for the
\* block leaves the stage "tokenize"; the block of a call in the stage "send"
\* leaves activeRequests.  Without theme changes a step of NextQueue is one
\* of these exactly when it is the action it stands for
\* (FairStepsAreActions), and each is possible exactly when that action is.
BatchStep == batchTimeout /\ batchTimeout' = FALSE
ResolveStep(id) ==
    \E t \in Running(tasks) :
        /\ t.id = id /\ t.stage = "tokenize"
        /\ tasks' = (tasks (-) One(t))
                        (+) One([t EXCEPT !.stage = "send",
                                          !.tokenizedCode =
                                              TokenizedCode(t.code, t.language, t.themeData)])
CompleteStep(id) ==
    /\ \E t \in Running(tasks) : t.id = id /\ t.stage = "send"
    /\ id \in activeRequests
    /\ activeRequests' \in SUBSET QueueIds
    /\ id \notin activeRequests'

FairStepsAreActions ==
    [][/\ (BatchStep <=> BatchTimeoutFires)
       /\ \A id \in QueueIds : (ResolveStep(id) <=> TokenizeResolvesOf(id))
       /\ \A id \in QueueIds : (CompleteStep(id) <=> RequestCompletesOf(id))]_vars

\* Fair scheduling: an armed batch timer fires (setTimeout), the promise of
\* tokenize() of every call settles (TokenizationService.tokenize always
\* resolves) and so does its sendMessageToPreview.
FairSpecQueue ==
    /\ SpecQueue
    /\ WF_batchTimeout(BatchStep)
    /\ \A id \in QueueIds : WF_tasks(ResolveStep(id)) /\ WF_activeRequests(CompleteStep(id))

(***************************************************************************)
(* SpecMatch: createMinimalHighlighting and tokenizeCode on lines built    *)
(* from a quote, a comment opener, a digit and the letters of a keyword.   *)
(***************************************************************************)
MaxMatchLen == 4
MatchAlphabet == {"\"", "#", "1", "i", "f", "\n"}
MatchStrings == UNION {StringsOfLen(MatchAlphabet, n) : n \in 0..MaxMatchLen}

InitMatch ==
    /\ code \in MatchStrings
    /\ language = "js"
    /\ tokens = <<>>
    /\ op = "none"
    /\ SvcIdle /\ UnitIdle /\ ThemeIdle /\ CacheIdle /\ EnhIdle

NextMatch ==
    \/ CallCreateMinimalHighlighting
    \/ CallTokenizeCode

SpecMatch == InitMatch /\ [][NextMatch]_vars


(***************************************************************************)
(* SpecTheme: one ThemeManager under host theme changes and override       *)
(* calls.                                                                  *)
(***************************************************************************)
InitTheme ==
    /\ activeColorTheme \in ColorThemeKinds
    /\ \E overrides \in Overrides :
           themeManager = ThemeManager(activeColorTheme, overrides)
    /\ themeEvent = NULL
    /\ bgColor = <<>>
    /\ detectedKind = <<>>
    /\ TokIdle /\ SvcIdle /\ UnitIdle /\ CacheIdle /\ EnhIdle

NextTheme ==
    \/ ActiveColorThemeChanges
    \/ CallSetThemeOverrides
    \/ CallClearThemeOverrides

SpecTheme == InitTheme /\ [][NextTheme]_vars


(***************************************************************************)
(* SpecDetect: detectThemeKind applied to one background colour: hex       *)
(* colours and rgb()/rgba() colours with channels around the thresholds,   *)
(* three colours exactly on a threshold, and strings that are no colour.   *)
(***************************************************************************)
HexChannels ==
    {<<"0", "0">>, <<"0", "c">>, <<"0", "d">>, <<"7", "f">>, <<"8", "0">>,
     <<"f", "2">>, <<"F", "3">>, <<"f", "f">>, <<"g", "g">>, <<"1", "g">>}
DecimalChannels ==
    {<<"0">>, <<"1", "3">>, <<"1", "2", "8">>, <<"2", "4", "3">>, <<"3", "0", "0">>}
HexColors == {<<"#">> \o r \o g \o b : r \in HexChannels, g \in HexChannels, b \in HexChannels}
RgbColors ==
    {prefix \o r \o sep \o g \o sep \o b \o <<")">> :
        prefix \in {<<"r", "g", "b", "(">>, <<"r", "g", "b", "a", "(">>},
        sep \in {<<",">>, <<",", " ">>},
        r \in DecimalChannels, g \in DecimalChannels, b \in DecimalChannels}
ThresholdColors ==
    {<<"r", "g", "b", "(", "2", ",", " ", "4", ",", " ", "8", "6", ")">>,
     <<"r", "g", "b", "(", "1", ",", " ", "1", "7", "3", ",", " ", "2", "2", "5", ")">>,
     <<"r", "g", "b", "(", "2", "4", "2", ",", " ", "2", "5", "0", ",", " ", "2", "0", "3", ")">>}
OtherStrings ==
    {<<>>,
     <<"#", "f", "f", "f">>,
     <<"#", "1", "e", "1", "e", "1", "e", "8", "0">>,
     <<"#", "1", "2", "3", "4", "5", "#">>,
     <<"t", "r", "a", "n", "s", "p", "a", "r", "e", "n", "t">>,
     <<"r", "g", "b", "(", "1", ",", " ", "2", ")">>,
     <<"r", "g", "b", "(", "1", ".", "5", ",", " ", "2", ",", " ", "3", ")">>,
     <<"x", " ", "r", "g", "b", "a", "(", "2", "5", "5", ",", " ", "2", "5", "5", ",", " ", "2", "5", "5", ",", " ", "0", ".", "5", ")">>}
BgColors == HexColors \cup RgbColors \cup ThresholdColors \cup OtherStrings

InitDetect ==
    /\ bgColor \in BgColors
    /\ detectedKind = <<>>
    /\ activeColorTheme = 2
    /\ themeManager = ThemeManager(2, EmptyMap)
    /\ themeEvent = NULL
    /\ TokIdle /\ SvcIdle /\ UnitIdle /\ CacheIdle /\ EnhIdle

NextDetect == CallDetectThemeKind

SpecDetect == InitDetect /\ [][NextDetect]_vars


(***************************************************************************)
(* SpecCacheShrink: SpecCache with setMaxSize(0) as well.                  *)
(***************************************************************************)
NextCacheShrink ==
    \/ CallGet
    \/ CallSet
    \/ CallDelete
    \/ CallClear
    \/ CallSetMaxSize
    \/ CallSetMaxSizeZero

SpecCacheShrink == InitCache /\ [][NextCacheShrink]_vars


(***************************************************************************)
(* SpecKey: generateKey applied to two codes with the same language and    *)
(* theme kind.                                                             *)
(***************************************************************************)
MaxKeyLen == 2
KeyAlphabet == {"A", "a", "B"}
KeyCodes == UNION {StringsOfLen(KeyAlphabet, n) : n \in 0..MaxKeyLen}

InitKey ==
    /\ keyArgs \in [code1 : KeyCodes, code2 : KeyCodes, language : {Java, Go},
                    themeKind : {Dark, Light}]
    /\ keyPair = <<>>
    /\ PerfIdle /\ PrioIdle /\ ColorIdle /\ PreviewIdle
    /\ TokIdle /\ SvcIdle /\ ThemeIdle /\ CacheIdle /\ EnhIdle

CallGenerateKey ==
    /\ keyPair = <<>>
    /\ keyPair' = <<generateKey(keyArgs.code1, keyArgs.language, keyArgs.themeKind),
                    generateKey(keyArgs.code2, keyArgs.language, keyArgs.themeKind)>>
    /\ UNCHANGED <<keyArgs, perfVars, prioVars, colorVars, previewVars>>
    /\ UNCHANGED <<tokVars, svcVars, cacheVars, enhVars, themeVars>>

NextKey == CallGenerateKey

SpecKey == InitKey /\ [][NextKey]_vars


(***************************************************************************)
(* SpecCacheKeys: a CacheManager called with the keys '', '   ', null and  *)
(* undefined.                                                              *)
(***************************************************************************)
InvalidKeys == {<<>>, NullKey, Undefined}
TestKeys == InvalidKeys \cup {<<" ", " ", " ">>}

CallHasKey ==
    \E key \in TestKeys :
        /\ cacheLast' = CacheCall("has", key)
        /\ cacheHad' = has(cacheManager, key)
        /\ UNCHANGED <<cacheManager, touched>>
        /\ UNCHANGED <<tokVars, svcVars, enhVars, themeVars, unitVars>>

CallGetKey ==
    \E key \in TestKeys :
        /\ cacheManager' = get(cacheManager, key)
        /\ touched' = IF getReturn(cacheManager, key) # NULL THEN Touch(key) ELSE touched
        /\ cacheLast' = CacheCall("get", key)
        /\ cacheHad' = has(cacheManager, key)
        /\ UNCHANGED <<tokVars, svcVars, enhVars, themeVars, unitVars>>

CallSetKey ==
    \E key \in TestKeys, value \in CacheValues :
        /\ cacheManager' = set(cacheManager, key, value)
        /\ touched' = Touch(key)
        /\ cacheLast' = CacheCall("set", key)
        /\ cacheHad' = has(cacheManager, key)
        /\ UNCHANGED <<tokVars, svcVars, enhVars, themeVars, unitVars>>

NextCacheKeys ==
    \/ CallHasKey
    \/ CallGetKey
    \/ CallSetKey
    \/ CallClear

SpecCacheKeys == InitCache /\ [][NextCacheKeys]_vars


(***************************************************************************)
(* SpecSvcCache: processRequest on a cache miss: one call of tokenize()    *)
(* and, when it has resolved, the cache set that follows the await.        *)
(***************************************************************************)
\* the language argument as the sequence of its code units
LanguageUnits == [js |-> <<"j", "s">>, cobol |-> <<"c", "o", "b", "o", "l">>]

InitSvcCache ==
    /\ TokIdle /\ SvcIdle /\ UnitIdle /\ ThemeIdle /\ EnhIdle
    /\ cacheManager = CacheManager(currentConfig.cacheSize)
    /\ touched = <<>>
    /\ cacheLast = CacheCall("none", <<>>)
    /\ cacheHad = FALSE

\* processRequest after await tokenize(): if (isCacheEnabled())
\* cacheManager.set(generateKey(code, language, themeData.kind), tokenizedCode)
ProcessRequestCaches ==
    /\ svcPc = "resolved"
    /\ cacheLast.op = "none"
    /\ currentConfig.enableCache
    /\ \E cacheKey \in {generateKey(svcCode, LanguageUnits[svcLang], currentThemeData.kind)} :
           /\ cacheManager' = set(cacheManager, cacheKey, svcResult)
           /\ touched' = Touch(cacheKey)
           /\ cacheLast' = CacheCall("set", cacheKey)
           /\ cacheHad' = has(cacheManager, cacheKey)
    /\ UNCHANGED <<tokVars, svcVars, enhVars, themeVars, unitVars>>

NextSvcCache ==
    \/ CallTokenize
    \/ ValidateLanguageReturns
    \/ OpenTextDocumentReturns
    \/ OpenTextDocumentThrows
    \/ SemanticTokensReturn
    \/ TimeoutFires
    \/ ProcessRequestCaches

SpecSvcCache == InitSvcCache /\ [][NextSvcCache]_vars


(***************************************************************************)
(* The colours of tokens.  createMinimalHighlighting and simpleTokenize    *)
(* give every token a color where they create it: themeData.foreground to  *)
(* the tokens of scopes ['text'], getColorForTokenType(type, themeData) to *)
(* the matched ones.                                                       *)
(***************************************************************************)
typeMapping ==
    ("comment" :> "comment") @@ ("string" :> "string") @@ ("keyword" :> "keyword")
    @@ ("number" :> "number") @@ ("function" :> "function") @@ ("method" :> "function")
    @@ ("class" :> "class") @@ ("type" :> "type") @@ ("interface" :> "type")
    @@ ("variable" :> "variable") @@ ("parameter" :> "parameter")
    @@ ("property" :> "property") @@ ("constant" :> "constant")
    @@ ("operator" :> "operator") @@ ("punctuation" :> "punctuation")
    @@ ("regexp" :> "regexp") @@ ("namespace" :> "type") @@ ("enum" :> "type")
    @@ ("struct" :> "type") @@ ("typeParameter" :> "type")
    @@ ("enumMember" :> "constant") @@ ("event" :> "function")
    @@ ("macro" :> "function") @@ ("modifier" :> "keyword")

\* a member of Object.prototype used as a property name: the text of the
\* function, a name no palette has
NativeFunctionText == "function () { [native code] }"

\* getColorForTokenType answering the foreground for every type
getColorForTokenType_Foreground(tokenType, themeData) == themeData.foreground

\* typeMapping[tokenType] || 'variable', then
\* themeData.colors[mappedType] || themeData.foreground
getColorForTokenType(tokenType, themeData) ==
    LET mappedType == IF tokenType \in DOMAIN typeMapping THEN typeMapping[tokenType]
                      ELSE IF tokenType \in ObjectPrototypeKeys THEN NativeFunctionText
                      ELSE "variable"
    IN Or(GetProperty(themeData.colors, mappedType), themeData.foreground)

\* the tokens with the color field they are created with
WithColor(toks, themeData) ==
    [i \in 1..Len(toks) |->
        [text |-> toks[i].text, scopes |-> toks[i].scopes,
         startIndex |-> toks[i].startIndex, endIndex |-> toks[i].endIndex,
         color |-> IF toks[i].scopes = "text" THEN themeData.foreground
                   ELSE getColorForTokenType(toks[i].scopes, themeData)]]

(***************************************************************************)
(* SpecColor: the tokenizers applied to one input with one theme, and      *)
(* getColorForTokenType applied to token types.                            *)
(***************************************************************************)
\* a palette without some of its entries
Restrict(colors, keys) == [k \in DOMAIN colors \cap keys |-> colors[k]]

ColorThemes ==
    {extractThemeData(2, EmptyMap),
     extractThemeData(1, "keyword" :> <<"#", "1", "2", "3", "4", "5", "6">>),
     ThemeData(Dark, Restrict(DarkTokenColors, {"comment", "string", "variable"})),
     ThemeData(Light, Restrict(LightTokenColors, {"keyword", "number"})),
     ThemeData(HighContrast, EmptyMap)}

ColorTokenTypes ==
    {"keyword", "method", "enumMember", "modifier", "text", "decorator", "label",
     "constructor"}

ColorAlphabet == {"i", "f", "1", "#", " "}
ColorStrings == UNION {StringsOfLen(ColorAlphabet, n) : n \in 0..MaxLen}

InitColor ==
    /\ code \in ColorStrings
    /\ language \in TokLanguages
    /\ tokens = <<>>
    /\ op = "none"
    /\ colorTheme \in ColorThemes
    /\ coloredTokens = <<>>
    /\ colorType = "none"
    /\ colorResult = <<>>
    /\ KeyIdle /\ PerfIdle /\ PrioIdle /\ PreviewIdle
    /\ SvcIdle /\ ThemeIdle /\ CacheIdle /\ EnhIdle

CallColoredMinimalHighlighting ==
    /\ coloredTokens' = WithColor(createMinimalHighlighting(code, language).tokens, colorTheme)
    /\ op' = "createMinimalHighlighting"
    /\ UNCHANGED <<code, language, tokens, colorTheme, colorType, colorResult>>
    /\ UNCHANGED <<keyVars, perfVars, prioVars, previewVars>>
    /\ UNCHANGED <<svcVars, cacheVars, enhVars, themeVars>>

CallColoredSimpleTokenize ==
    /\ coloredTokens' = WithColor(simpleTokenize(code, language), colorTheme)
    /\ op' = "simpleTokenize"
    /\ UNCHANGED <<code, language, tokens, colorTheme, colorType, colorResult>>
    /\ UNCHANGED <<keyVars, perfVars, prioVars, previewVars>>
    /\ UNCHANGED <<svcVars, cacheVars, enhVars, themeVars>>

CallGetColorForTokenType ==
    \E tokenType \in ColorTokenTypes :
        /\ colorType' = tokenType
        /\ colorResult' = getColorForTokenType(tokenType, colorTheme)
        /\ UNCHANGED <<tokVars, colorTheme, coloredTokens>>
        /\ UNCHANGED <<keyVars, perfVars, prioVars, previewVars>>
        /\ UNCHANGED <<svcVars, cacheVars, enhVars, themeVars>>

NextColor ==
    \/ CallColoredMinimalHighlighting
    \/ CallColoredSimpleTokenize
    \/ CallGetColorForTokenType

SpecColor == InitColor /\ [][NextColor]_vars


(***************************************************************************)
(* PerformanceMonitor.  Labels, metric names and timer ids are strings,    *)
(* written as sequences of code units.  performance.now() and Date.now()   *)
(* are read from perfNow, a clock that never reads 0.                      *)
(***************************************************************************)
\* values.length > 100
MaxMetricValues == 100

\* Number.prototype.toString() of a natural number
RECURSIVE ToString10(_)
ToString10(n) ==
    IF n < 10 THEN <<DigitSeq[n + 1]>>
    ELSE Append(ToString10(n \div 10), DigitSeq[(n % 10) + 1])

\* str.split('-')[0]
RECURSIVE SplitFirst(_)
SplitFirst(str) ==
    IF Len(str) = 0 \/ Head(str) = "-" THEN <<>>
    ELSE <<Head(str)>> \o SplitFirst(Tail(str))

\* `${label}-${Date.now()}-${Math.random().toString(36).substr(2, 9)}`
TimerId(label, now, random) ==
    label \o <<"-">> \o ToString10(now) \o <<"-">> \o random

\* startTimer: the id returned, and the monitor after the call
startTimerReturn(pm, label, now, random) ==
    IF ~pm.enabled THEN <<>> ELSE TimerId(label, now, random)

startTimer(pm, label, now, random) ==
    IF ~pm.enabled THEN pm
    ELSE [pm EXCEPT !.timers = MapSet(@, TimerId(label, now, random), now)]

\* recordMetric without the shift
recordMetric_NoShift(pm, name, value) ==
    IF ~pm.enabled THEN pm
    ELSE [pm EXCEPT !.metrics =
             MapSet(@, name, Append(IF name \in DOMAIN @ THEN @[name] ELSE <<>>, value))]

recordMetric(pm, name, value) ==
    IF ~pm.enabled THEN pm
    ELSE LET values == Append(IF name \in DOMAIN pm.metrics THEN pm.metrics[name]
                              ELSE <<>>, value)
         IN [pm EXCEPT !.metrics =
                MapSet(@, name, IF Len(values) > MaxMetricValues THEN Tail(values)
                                ELSE values)]

\* endTimer: whether it gets past its two early returns (a start time of 0
\* is falsy), what it returns, and the monitor after the call
endTimerFound(pm, id) ==
    pm.enabled /\ id # <<>> /\ id \in DOMAIN pm.timers /\ pm.timers[id] # 0

endTimerReturn(pm, id, now) ==
    IF endTimerFound(pm, id) THEN now - pm.timers[id] ELSE 0

endTimer(pm, id, now) ==
    IF endTimerFound(pm, id)
    THEN recordMetric([pm EXCEPT !.timers = MapDelete(@, id)],
                      SplitFirst(id), now - pm.timers[id])
    ELSE pm

\* PerformanceMonitor.clear
clearMonitor(pm) == [pm EXCEPT !.metrics = NoMetrics, !.timers = NoTimers]

\* setEnabled that keeps what was recorded
setEnabled_Keep(pm, enabled) == [pm EXCEPT !.enabled = enabled]

setEnabled(pm, enabled) ==
    IF ~enabled THEN clearMonitor([pm EXCEPT !.enabled = enabled])
    ELSE [pm EXCEPT !.enabled = enabled]

\* new Map(this.metrics)
getMetrics(pm) == pm.metrics

\* the values recorded under a name, with one more
Recorded(hist, name, value) ==
    MapSet(hist, name, Append(IF name \in DOMAIN hist THEN hist[name] ELSE <<>>, value))

HasEntries(pm) == pm.metrics # NoMetrics \/ pm.timers # NoTimers

(***************************************************************************)
(* SpecMetricWindow: recordMetric called on an enabled monitor, for two    *)
(* metrics, more than MaxMetricValues times each; the n-th value recorded  *)
(* under a name is n.                                                      *)
(***************************************************************************)
MaxRecordings == 103

CacheHitName == <<"c", "a", "c", "h", "e", "H", "i", "t">>
CacheMissName == <<"c", "a", "c", "h", "e", "M", "i", "s", "s">>
Tokenization == <<"t", "o", "k", "e", "n", "i", "z", "a", "t", "i", "o", "n">>
TimedOperation == <<"t", "i", "m", "e", "d", "-", "o", "p", "e", "r", "a", "t", "i", "o", "n">>

InitMetricWindow ==
    /\ performanceMonitor = PerformanceMonitor(TRUE)
    /\ perfNow = 1
    /\ perfLast = PerfCall("none", <<>>, <<>>, FALSE)
    /\ perfRecorded = NoMetrics
    /\ perfLabels = NoMetrics
    /\ KeyIdle /\ PrioIdle /\ ColorIdle /\ PreviewIdle
    /\ TokIdle /\ SvcIdle /\ ThemeIdle /\ CacheIdle /\ EnhIdle

RecordMetric(name, value) ==
    /\ performanceMonitor' = recordMetric(performanceMonitor, name, value)
    /\ perfRecorded' = IF performanceMonitor.enabled
                       THEN Recorded(perfRecorded, name, value) ELSE perfRecorded
    /\ perfLast' = PerfCall("recordMetric", name, <<>>, name \in DOMAIN performanceMonitor.metrics)
    /\ UNCHANGED <<perfNow, perfLabels>>
    /\ UNCHANGED <<keyVars, prioVars, colorVars, previewVars>>
    /\ UNCHANGED <<tokVars, svcVars, cacheVars, enhVars, themeVars>>

CallRecordMetric ==
    \E name \in {CacheHitName, CacheMissName} :
    \E n \in {IF name \in DOMAIN perfRecorded THEN Len(perfRecorded[name]) ELSE 0} :
        /\ n < MaxRecordings
        /\ RecordMetric(name, n + 1)

NextMetricWindow == CallRecordMetric

SpecMetricWindow == InitMetricWindow /\ [][NextMetricWindow]_vars

(***************************************************************************)
(* SpecMonitor: a PerformanceMonitor constructed enabled or disabled and   *)
(* called with every operation, while its clock advances.                  *)
(***************************************************************************)
MaxNow == 2
MaxTimers == 2
MaxValues == 2

TimerLabels == {Tokenization, TimedOperation}
RandomParts == {<<"k", "3">>}
MetricValues == {5}

InitMonitor ==
    /\ \E enabled \in BOOLEAN : performanceMonitor = PerformanceMonitor(enabled)
    /\ perfNow = 1
    /\ perfLast = PerfCall("none", <<>>, <<>>, FALSE)
    /\ perfRecorded = NoMetrics
    /\ perfLabels = NoMetrics
    /\ KeyIdle /\ PrioIdle /\ ColorIdle /\ PreviewIdle
    /\ TokIdle /\ SvcIdle /\ ThemeIdle /\ CacheIdle /\ EnhIdle

\* the values recorded since the latest clear, all names together
RecordedCount == 
    LET RECURSIVE Sum(_)
        Sum(names) == IF names = {} THEN 0
                      ELSE LET name == CHOOSE x \in names : TRUE
                           IN Len(perfRecorded[name]) + Sum(names \ {name})
    IN Sum(DOMAIN perfRecorded)

ClockAdvances ==
    /\ perfNow < MaxNow
    /\ perfNow' = perfNow + 1
    /\ UNCHANGED <<performanceMonitor, perfLast, perfRecorded, perfLabels>>
    /\ UNCHANGED <<keyVars, prioVars, colorVars, previewVars>>
    /\ UNCHANGED <<tokVars, svcVars, cacheVars, enhVars, themeVars>>

CallStartTimer ==
    \E label \in TimerLabels, random \in RandomParts :
    \E id \in {startTimerReturn(performanceMonitor, label, perfNow, random)} :
        /\ Cardinality(DOMAIN performanceMonitor.timers) < MaxTimers
        /\ performanceMonitor' = startTimer(performanceMonitor, label, perfNow, random)
        /\ perfLast' = PerfCall("startTimer", label, id, FALSE)
        /\ perfLabels' = IF id # <<>> THEN MapSet(perfLabels, id, label) ELSE perfLabels
        /\ UNCHANGED <<perfNow, perfRecorded>>
        /\ UNCHANGED <<keyVars, prioVars, colorVars, previewVars>>
        /\ UNCHANGED <<tokVars, svcVars, cacheVars, enhVars, themeVars>>

CallEndTimer ==
    \E id \in DOMAIN perfLabels \cup {<<>>} :
    \E found \in {endTimerFound(performanceMonitor, id)},
       elapsed \in {endTimerReturn(performanceMonitor, id, perfNow)} :
        /\ RecordedCount < MaxValues
        /\ performanceMonitor' = endTimer(performanceMonitor, id, perfNow)
        /\ perfLast' = PerfCall("endTimer", id, elapsed, found)
        /\ perfRecorded' = IF found THEN Recorded(perfRecorded, SplitFirst(id), elapsed)
                           ELSE perfRecorded
        /\ UNCHANGED <<perfNow, perfLabels>>
        /\ UNCHANGED <<keyVars, prioVars, colorVars, previewVars>>
        /\ UNCHANGED <<tokVars, svcVars, cacheVars, enhVars, themeVars>>

CallRecordMetricValue ==
    \E name \in {CacheHitName, TimedOperation}, value \in MetricValues :
        /\ RecordedCount < MaxValues
        /\ RecordMetric(name, value)

CallClearMonitor ==
    /\ performanceMonitor' = clearMonitor(performanceMonitor)
    /\ perfLast' = PerfCall("clear", <<>>, <<>>, HasEntries(performanceMonitor))
    /\ perfRecorded' = NoMetrics
    /\ UNCHANGED <<perfNow, perfLabels>>
    /\ UNCHANGED <<keyVars, prioVars, colorVars, previewVars>>
    /\ UNCHANGED <<tokVars, svcVars, cacheVars, enhVars, themeVars>>

CallSetEnabled ==
    \E enabled \in BOOLEAN :
        /\ performanceMonitor' = setEnabled(performanceMonitor, enabled)
        /\ perfLast' = PerfCall("setEnabled", <<>>, enabled, HasEntries(performanceMonitor))
        /\ perfRecorded' = IF enabled THEN perfRecorded ELSE NoMetrics
        /\ UNCHANGED <<perfNow, perfLabels>>
        /\ UNCHANGED <<keyVars, prioVars, colorVars, previewVars>>
        /\ UNCHANGED <<tokVars, svcVars, cacheVars, enhVars, themeVars>>

NextMonitor ==
    \/ ClockAdvances
    \/ CallStartTimer
    \/ CallEndTimer
    \/ CallRecordMetricValue
    \/ CallClearMonitor
    \/ CallSetEnabled

SpecMonitor == InitMonitor /\ [][NextMonitor]_vars


(***************************************************************************)
(* SpecPriority: calculatePriority applied to one request, with code       *)
(* lengths around its two thresholds and languages in several spellings.   *)
(***************************************************************************)
PriorityCodeLengths == {0, 1, 999, 1000, 1001, 4999, 5000, 5001}
PriorityLanguages ==
    commonLanguages
        \cup {<<"J", "a", "v", "a">>, <<"C", "P", "P">>, <<"j", "s">>, Go, <<>>}

\* a code of n code units
CodeOfLength(n) == [i \in 1..n |-> "x"]

InitPriority ==
    /\ \E n \in PriorityCodeLengths, lang \in PriorityLanguages :
           prioRequest = [id |-> "block-1", code |-> CodeOfLength(n), language |-> lang]
    /\ prioResult = 0
    /\ KeyIdle /\ PerfIdle /\ ColorIdle /\ PreviewIdle
    /\ TokIdle /\ SvcIdle /\ ThemeIdle /\ CacheIdle /\ EnhIdle

CallCalculatePriority ==
    /\ prioResult = 0
    /\ prioResult' = calculatePriority(prioRequest)
    /\ UNCHANGED <<prioRequest, keyVars, perfVars, colorVars, previewVars>>
    /\ UNCHANGED <<tokVars, svcVars, cacheVars, enhVars, themeVars>>

NextPriority == CallCalculatePriority

SpecPriority == InitPriority /\ [][NextPriority]_vars


(***************************************************************************)
(* SpecCacheResize: a CacheManager called with the keys of SpecCacheKeys   *)
(* and with setMaxSize for sizes from -1, the loop of setMaxSize taken one *)
(* iteration at a time.  cacheLast.op is "setMaxSizeLoop" while the call   *)
(* is in its loop; no other call starts before it has returned.            *)
(***************************************************************************)
ResizeSizes == -1..MaxCacheSize

InLoop == cacheLast.op = "setMaxSizeLoop"

CallDeleteKey ==
    \E key \in TestKeys :
        /\ cacheManager' = delete(cacheManager, key)
        /\ cacheLast' = CacheCall("delete", key)
        /\ cacheHad' = has(cacheManager, key)
        /\ UNCHANGED <<touched, tokVars, svcVars, enhVars, themeVars, unitVars>>

\* setMaxSize: this.maxSize = newMaxSize
SetMaxSizeEnters ==
    \E newMaxSize \in ResizeSizes :
        /\ cacheManager' = [cacheManager EXCEPT !.maxSize = newMaxSize]
        /\ cacheLast' = CacheCall("setMaxSizeLoop", <<>>)
        /\ cacheHad' = (size(cacheManager) > newMaxSize)
        /\ UNCHANGED <<touched, tokVars, svcVars, enhVars, themeVars, unitVars>>

\* while (this.cache.size > this.maxSize) this.evictLeastRecentlyUsed()
SetMaxSizeEvicts ==
    /\ InLoop
    /\ size(cacheManager) > cacheManager.maxSize
    /\ cacheManager' = evictLeastRecentlyUsed(cacheManager)
    /\ UNCHANGED <<touched, cacheLast, cacheHad, tokVars, svcVars, enhVars, themeVars, unitVars>>

\* the loop condition is false: setMaxSize returns
SetMaxSizeReturns ==
    /\ InLoop
    /\ ~(size(cacheManager) > cacheManager.maxSize)
    /\ cacheLast' = CacheCall("setMaxSize", <<>>)
    /\ UNCHANGED <<cacheManager, touched, cacheHad, tokVars, svcVars, enhVars, themeVars,
                   unitVars>>

NextCacheResize ==
    \/ ~InLoop /\ CallGetKey
    \/ ~InLoop /\ CallSetKey
    \/ ~InLoop /\ CallDeleteKey
    \/ ~InLoop /\ CallClear
    \/ ~InLoop /\ SetMaxSizeEnters
    \/ SetMaxSizeEvicts
    \/ SetMaxSizeReturns

SpecCacheResize == InitCache /\ [][NextCacheResize]_vars

\* the loop of setMaxSize runs on: an iteration or the return is taken
\* whenever one is possible
FairSpecCacheResize ==
    SpecCacheResize /\ WF_vars(SetMaxSizeEvicts) /\ WF_vars(SetMaxSizeReturns)


(***************************************************************************)
(* SpecConfig: the PreviewEnhancer started with, and then told of,         *)
(* settings whose concurrentRequests is any number the settings file can   *)
(* hold, in and out of the range 1..20, while requests arrive and the      *)
(* batch timer starts them.                                                *)
(***************************************************************************)
RawConcurrentRequests == {-1, 0, 1, 2, 3, 5, 20, 21, 25, 100}

RawConfigs ==
    {[config EXCEPT !.concurrentRequests = n] :
        config \in Configs, n \in RawConcurrentRequests}

InitConfig ==
    /\ currentConfig \in RawConfigs
    /\ currentThemeData = [kind |-> Dark, name |-> "Dark+"]
    /\ cacheManager = CacheManager(IF currentConfig.enableCache
                                   THEN currentConfig.cacheSize ELSE 0)
    /\ touched = <<>>
    /\ cacheLast = CacheCall("none", <<>>)
    /\ cacheHad = FALSE
    /\ requestQueue = <<>>
    /\ activeRequests = {}
    /\ batchTimeout = FALSE
    /\ themeChangeDebounceTimeout = "null"
    /\ maxConcurrentRequests = getConcurrentRequests(currentConfig)
    /\ tasks = EmptyBag
    /\ nThemeChanges = 0
    /\ TokIdle /\ SvcIdle /\ UnitIdle /\ ThemeIdle

RawConfigurationChanges == \E newConfig \in RawConfigs : ConfigurationChangesTo(newConfig)

NextConfig ==
    \/ RawConfigurationChanges
    \/ ReceiveTokenizeRequest
    \/ BatchTimeoutFires

SpecConfig == InitConfig /\ [][NextConfig]_vars


\* processRequest rejects (its catch block rethrows) and the catch-callback of
\* processQueue runs: activeRequests.delete(id) and the error is handled; the
\* callback does not call processQueue()
RequestRejectsFor(t) ==
    /\ activeRequests' = activeRequests \ {t.id}
    /\ tasks' = tasks (-) One(t)
    /\ UNCHANGED <<currentConfig, currentThemeData, requestQueue, batchTimeout,
                   themeChangeDebounceTimeout, maxConcurrentRequests, nThemeChanges>>
    /\ UNCHANGED <<tokVars, svcVars, cacheVars, themeVars, unitVars>>

RequestRejects == \E t \in Running(tasks) : RequestRejectsFor(t)

NextRefill ==
    \/ ReceiveTokenizeRequest
    \/ BatchTimeoutFires
    \/ TokenizeResolves
    \/ RequestCompletes
    \/ RequestRejects
    \/ ThemeChanges
    \/ ThemeChangeTimeoutFires
    \/ ConfigurationChanges

SpecRefill == Init /\ [][NextRefill]_vars

(***************************************************************************)
(* The preview script (previewScript.ts): the code blocks of one preview,  *)
(* the scan that enhances them, the DOM observer and the theme observer.   *)
(***************************************************************************)

MaxBlocks == 2
MaxDomChanges == 2

ThemeDataKinds == {"light", "dark", "highContrast"}
BlockTexts == {<<"i", "f">>, <<" ">>}

\* a pre > code element as the Markdown renderer creates it
CodeElement(text) ==
    [text |-> text, blockId |-> NullKey, color |-> "none", wrapped |-> FALSE]

RenderedDocuments ==
    UNION {[1..n -> {CodeElement(text) : text \in BlockTexts}] : n \in 1..MaxBlocks}

\* simpleHash(str)
simpleHash(str) == ToString36(Abs32(HashLoop(str, 1, <<0, 0>>)))

\* simpleHash of the texts of the blocks
BlockHashes == [text \in BlockTexts |-> simpleHash(text)]

\* `block-${simpleHash(code)}-${Date.now()}`
NewBlockId(text, time) ==
    <<"b", "l", "o", "c", "k", "-">> \o BlockHashes[text] \o <<"-">> \o ToString10(time)

\* the textContent of an element whose content is the spans of
\* tokenizeCode(code, language), for the texts of the blocks
SpanTexts == [text \in BlockTexts |-> ConcatText(tokenizeCode(text, <<>>))]

\* code.trim()
RECURSIVE TrimStart(_)
TrimStart(str) ==
    IF Len(str) > 0 /\ IsWhiteSpace(Head(str)) THEN TrimStart(Tail(str)) ELSE str

RECURSIVE TrimEnd(_)
TrimEnd(str) ==
    IF Len(str) > 0 /\ IsWhiteSpace(str[Len(str)])
    THEN TrimEnd(SubSeq(str, 1, Len(str) - 1))
    ELSE str

trim(str) == TrimEnd(TrimStart(str))

\* the state a scan works on
PreviewState ==
    [blocks |-> codeBlocks, processed |-> processedBlocks, theme |-> currentTheme,
     now |-> dateNow, enhanced |-> {}]

\* applyHighlighting(codeElement, tokenizeCode(code, language)): the spans
\* replace the content of the element and take the colours of currentTheme
applyHighlighting(element, c, theme) ==
    IF theme = "null" THEN element
    ELSE [element EXCEPT !.text = SpanTexts[c], !.color = theme]

\* wrapCodeBlock(codeElement, code)
wrapCodeBlock(element) ==
    IF element.wrapped THEN element ELSE [element EXCEPT !.wrapped = TRUE]

\* processCodeBlock without the test of processedBlocks
processCodeBlock_Always(st, i, tick) ==
    LET element == st.blocks[i]
        time == IF Truthy(element.blockId) THEN st.now ELSE st.now + tick
        blockId == IF Truthy(element.blockId) THEN element.blockId
                   ELSE NewBlockId(element.text, time)
        identified == [element EXCEPT !.blockId = blockId]
        c == element.text
    IN IF ~Truthy(trim(c))
       THEN [st EXCEPT !.blocks[i] = identified, !.now = time]
       ELSE [st EXCEPT
               !.blocks[i] = wrapCodeBlock(
                                 applyHighlighting(identified, c, st.theme)),
               !.processed = @ \cup {blockId},
               !.now = time,
               !.enhanced = @ \cup {i}]

\* processCodeBlock(codeElement) on the element at position i; tick is the
\* time that passes before Date.now() is read in getOrCreateBlockId
processCodeBlock(st, i, tick) ==
    LET element == st.blocks[i]
        time == IF Truthy(element.blockId) THEN st.now ELSE st.now + tick
        blockId == IF Truthy(element.blockId) THEN element.blockId
                   ELSE NewBlockId(element.text, time)
        identified == [element EXCEPT !.blockId = blockId]
        c == element.text
    IN IF blockId \in st.processed
       THEN [st EXCEPT !.blocks[i] = identified, !.now = time]
       ELSE IF ~Truthy(trim(c))
       THEN [st EXCEPT !.blocks[i] = identified, !.now = time]
       ELSE [st EXCEPT
               !.blocks[i] = wrapCodeBlock(
                                 applyHighlighting(identified, c, st.theme)),
               !.processed = @ \cup {blockId},
               !.now = time,
               !.enhanced = @ \cup {i}]

RECURSIVE ScanFrom(_, _, _)
ScanFrom(st, i, ticks) ==
    IF i > Len(st.blocks) THEN st
    ELSE ScanFrom(processCodeBlock(st, i, ticks[i]), i + 1, ticks)

\* scanAndEnhanceCodeBlocks()
scanAndEnhanceCodeBlocks(st, ticks) == ScanFrom(st, 1, ticks)

\* the time that passes before each block of a scan: none or a millisecond
Ticks == [1..MaxBlocks -> 0..1]

\* the assignments of a step that ran a scan and ended in st
ScanEndsIn(st) ==
    /\ codeBlocks' = st.blocks
    /\ processedBlocks' = st.processed
    /\ currentTheme' = st.theme
    /\ dateNow' = st.now
    /\ processedNow' = st.enhanced

InitPreview ==
    /\ codeBlocks \in RenderedDocuments
    /\ bodyTheme \in ThemeDataKinds
    /\ processedBlocks = {}
    /\ currentTheme = "null"
    /\ scanTimeout = "null"
    /\ themeMutations = FALSE
    /\ processedNow = {}
    /\ dateNow = 0
    /\ nDomChanges = 0
    /\ KeyIdle /\ PerfIdle /\ PrioIdle /\ ColorIdle
    /\ TokIdle /\ SvcIdle /\ ThemeIdle /\ CacheIdle /\ EnhIdle

\* initialize(): the theme is detected, the document is scanned, and after
\* the scan the two observers are registered
Initialize ==
    /\ currentTheme = "null"
    /\ \E ticks \in Ticks :
          ScanEndsIn(scanAndEnhanceCodeBlocks(
                         [PreviewState EXCEPT !.theme = bodyTheme], ticks))
    /\ UNCHANGED <<bodyTheme, scanTimeout, themeMutations, nDomChanges>>
    /\ UNCHANGED <<tokVars, svcVars, cacheVars, enhVars, themeVars,
                   keyVars, perfVars, prioVars, colorVars>>

\* the host renders the document again: new elements under document.body,
\* which the DOM observer reports to its debounced callback
HostRendersDocument ==
    /\ currentTheme # "null"
    /\ nDomChanges < MaxDomChanges
    /\ codeBlocks' \in RenderedDocuments
    /\ scanTimeout' = "pending"
    /\ nDomChanges' = nDomChanges + 1
    /\ UNCHANGED <<processedBlocks, currentTheme, bodyTheme, themeMutations,
                   processedNow, dateNow>>
    /\ UNCHANGED <<tokVars, svcVars, cacheVars, enhVars, themeVars,
                   keyVars, perfVars, prioVars, colorVars>>

\* the host changes class or style of document.body (a theme is activated):
\* the theme observer has a record to deliver
BodyAttributesChange ==
    /\ currentTheme # "null"
    /\ nDomChanges < MaxDomChanges
    /\ bodyTheme' \in ThemeDataKinds
    /\ themeMutations' = TRUE
    /\ nDomChanges' = nDomChanges + 1
    /\ UNCHANGED <<codeBlocks, processedBlocks, currentTheme, scanTimeout,
                   processedNow, dateNow>>
    /\ UNCHANGED <<tokVars, svcVars, cacheVars, enhVars, themeVars,
                   keyVars, perfVars, prioVars, colorVars>>

\* the callback of the theme observer
ThemeObserverFires ==
    /\ themeMutations
    /\ themeMutations' = FALSE
    /\ IF bodyTheme # currentTheme
       THEN \E ticks \in Ticks :
               \E st \in {scanAndEnhanceCodeBlocks(
                              [PreviewState EXCEPT !.theme = bodyTheme,
                                                   !.processed = {}], ticks)} :
                   /\ ScanEndsIn(st)
                   /\ scanTimeout' = IF st.enhanced # {} THEN "pending"
                                     ELSE scanTimeout
       ELSE UNCHANGED <<codeBlocks, processedBlocks, currentTheme, scanTimeout,
                        processedNow, dateNow>>
    /\ UNCHANGED <<bodyTheme, nDomChanges>>
    /\ UNCHANGED <<tokVars, svcVars, cacheVars, enhVars, themeVars,
                   keyVars, perfVars, prioVars, colorVars>>

\* dateNow is the latest value Date.now() returned: after the 250 ms of the
\* debounce timer the next value read is larger
TimerDelay ==
    IF \E i \in 1..Len(codeBlocks) : ~Truthy(codeBlocks[i].blockId) THEN 1 ELSE 0

\* the debounced callback of the DOM observer, 250 ms after the latest
\* mutation: a scan; what the scan changes under document.body is reported
\* to the observer and starts the timer again
DomObserverTimeoutFires ==
    /\ scanTimeout = "pending"
    /\ \E ticks \in Ticks :
          \E st \in {scanAndEnhanceCodeBlocks(
                         [PreviewState EXCEPT !.now = @ + TimerDelay], ticks)} :
              /\ ScanEndsIn(st)
              /\ scanTimeout' = IF st.enhanced # {} THEN "pending" ELSE "null"
    /\ UNCHANGED <<bodyTheme, themeMutations, nDomChanges>>
    /\ UNCHANGED <<tokVars, svcVars, cacheVars, enhVars, themeVars,
                   keyVars, perfVars, prioVars, colorVars>>

NextPreview ==
    \/ Initialize
    \/ HostRendersDocument
    \/ BodyAttributesChange
    \/ ThemeObserverFires
    \/ DomObserverTimeoutFires

SpecPreview == InitPreview /\ [][NextPreview]_vars

FairSpecPreview ==
    /\ SpecPreview
    /\ WF_vars(Initialize)
    /\ WF_vars(ThemeObserverFires)
    /\ WF_vars(DomObserverTimeoutFires)

(***************************************************************************)
(* Claims.                                                                 *)
(***************************************************************************)

\* C1: for every source string and language, the text fields of the tokens
\* returned by createMinimalHighlighting, simpleTokenize and tokenizeCode,
\* concatenated in order, equal the source string exactly.
C1_RoundTrip == op # "none" => ConcatText(tokens) = code

\* a multi-line input with white space and a code unit outside ASCII has
\* been tokenized into several tokens
C1_Witness ==
    /\ op # "none"
    /\ Len(tokens) >= 3
    /\ \E i, j, k \in 1..Len(code) :
           code[i] = "\n" /\ code[j] = "u00E9" /\ code[k] = " "

\* C2: whenever tokenize() took the streaming path, also for a code of more
\* lines than one chunk, the concatenated text of the returned tokens equals
\* the code.
C2_StreamingRoundTrip ==
    (svcPc = "resolved" /\ svcMode = "streaming")
        => ConcatText(svcResult.tokens) = svcCode

\* the stored key whose latest set or successful get is the oldest
Oldest(m) == Head(SelectSeq(touched, LAMBDA k : has(m, k)))

\* C3: when set(k, v) is called with k absent on a full CacheManager of
\* capacity at least 1, exactly one entry is removed, the one whose latest
\* set or successful get is the oldest; every other entry is retained as
\* it was and k is present afterwards.
C3_LruEviction ==
    [][\A k \in CacheKeys :
          (/\ cacheLast' = CacheCall("set", k)
           /\ ~has(cacheManager, k)
           /\ size(cacheManager) = cacheManager.maxSize)
          => LET before == DOMAIN cacheManager.cache
                 evicted == Oldest(cacheManager)
             IN /\ evicted \in before
                /\ DOMAIN cacheManager'.cache = (before \ {evicted}) \cup {k}
                /\ \A x \in before \ {evicted} :
                       cacheManager'.cache[x] = cacheManager.cache[x]
                /\ has(cacheManager', k)]_vars

\* a set on a full cache of capacity above 1 has just evicted a key
C3_Witness ==
    /\ cacheLast.op = "set"
    /\ cacheManager.maxSize > 1
    /\ size(cacheManager) = cacheManager.maxSize
    /\ has(cacheManager, cacheLast.key)
    /\ \E i \in 1..Len(touched) : ~has(cacheManager, touched[i])

\* C4: for a CacheManager of capacity at least 1, after any sequence of set,
\* get, delete, clear and setMaxSize(n >= 1) calls with non-empty keys,
\* size() never exceeds the current maxSize.
C4_CapacityBound == size(cacheManager) <= cacheManager.maxSize

\* setMaxSize has just lowered the capacity of a cache that held more
C4_Witness ==
    /\ cacheLast.op = "setMaxSize"
    /\ size(cacheManager) = cacheManager.maxSize
    /\ Len(touched) > cacheManager.maxSize

\* C5: for a CacheManager with maxSize = 0, size() stays 0 after any number
\* of set calls and get returns null for every key.
C5_ZeroCapacityNoOp ==
    cacheManager.maxSize = 0
        => /\ size(cacheManager) = 0
           /\ \A key \in CacheKeys : getReturn(cacheManager, key) = NULL

\* the cache key of a call of processRequest
TaskKey(t) == generateKey(t.code, t.language, t.themeData.kind)

\* the calls of processRequest that start in a step: new in the bag and
\* either waiting for tokenize() or answered from the cache
Started(t) ==
    /\ CopiesIn(t, tasks') > CopiesIn(t, tasks)
    /\ t.stage = "tokenize" \/ t.fromCache

\* C6: with caching enabled and capacity at least 1, a request whose
\* tokenization resolves leaves its result in the cache under the key of its
\* code, language and theme kind; and a request that starts while the cache
\* holds the key of its code, language and the current theme kind is answered
\* with the cached result and never waits for the tokenizer.
C6_CacheHitOnRepeat ==
    [][/\ \A t \in Running(tasks) :
             (/\ t.stage = "tokenize"
              /\ CopiesIn(t, tasks') < CopiesIn(t, tasks)
              /\ currentConfig.enableCache
              /\ cacheManager.maxSize >= 1)
             => getReturn(cacheManager', TaskKey(t))
                    = TokenizedCode(t.code, t.language, t.themeData)
       /\ \A t \in Running(tasks') :
             (/\ Started(t)
              /\ currentConfig.enableCache
              /\ has(cacheManager,
                     generateKey(t.code, t.language, currentThemeData.kind)))
             => /\ t.fromCache
                /\ t.stage = "send"
                /\ t.tokenizedCode = getReturn(cacheManager, TaskKey(t))]_vars

\* a request is being answered from the cache
C6_Witness ==
    \E t \in Running(tasks) :
        /\ t.fromCache
        /\ t.tokenizedCode = TokenizedCode(t.code, t.language, t.themeData)

\* C7: when the debounce timer of the theme change has run, the cache holds
\* no entry, the pending queue is empty and the in-flight tracking set is
\* empty: a get for any key cached before the change misses.
C7_ThemeChangeReaction ==
    [][(themeChangeDebounceTimeout = "pending"
            /\ themeChangeDebounceTimeout' = "expired")
          => /\ size(cacheManager') = 0
             /\ requestQueue' = <<>>
             /\ activeRequests' = {}
             /\ \A key \in DOMAIN cacheManager.cache :
                    getReturn(cacheManager', key) = NULL]_vars

\* the theme change has been handled while a request whose result had been
\* cached was still being answered
C7_Witness ==
    /\ themeChangeDebounceTimeout = "expired"
    /\ size(cacheManager) = 0
    /\ requestQueue = <<>>
    /\ activeRequests = {}
    /\ currentConfig.enableCache
    /\ \E t \in Running(tasks) : t.stage = "send" /\ ~t.fromCache

\* the token list tokenizeWithStreaming builds when every chunk's race ends
\* in the catch of tokenizeWithTimeout
RECURSIVE ChunkwiseMinimal(_, _, _, _)
ChunkwiseMinimal(lines, i, pos, lang) ==
    IF i >= Len(lines) THEN <<>>
    ELSE
        LET chunk == Join(Slice(lines, i, i + STREAMING_CHUNK_SIZE))
            more == i + STREAMING_CHUNK_SIZE < Len(lines)
        IN Shifted(createMinimalHighlighting(chunk, lang).tokens, pos)
               \o ChunkwiseMinimal(lines, i + STREAMING_CHUNK_SIZE,
                                   pos + Len(chunk) + (IF more THEN 1 ELSE 0), lang)

AllFellBack == \A k \in 1..Len(svcLog) : svcLog[k] \in {"timeout", "error"}

C8_Resolved ==
    /\ svcPc # "rejected"
    /\ svcPc = "resolved" =>
          /\ Len(svcResult.tokens) > 0
          /\ (svcMode = "normal" /\ AllFellBack)
                => svcResult = createMinimalHighlighting(svcCode, svcLang)
          /\ (svcMode = "streaming" /\ AllFellBack)
                => svcResult.tokens = ChunkwiseMinimal(Split(svcCode), 0, 0, svcLang)

\* C8: tokenize() never rejects and every pending call resolves; when the
\* timeout fired or tokenization threw it resolves with the minimal
\* highlighting (of the code on the normal path, of each chunk on the
\* streaming path), and the token list it resolves with is never empty.
C8_TokenizeAlwaysResolves ==
    /\ []C8_Resolved
    /\ (svcPc = "race") ~> (svcPc = "resolved")

\* a call on the empty code resolved after its timeout fired
C8_Witness ==
    /\ svcPc = "resolved"
    /\ svcCode = <<>>
    /\ svcLog = <<"timeout">>

\* C9: at no time are two calls of processRequest for the same block id
\* in progress.
C9_NoTwoTasksPerBlock ==
    \A t1, t2 \in Running(tasks) :
        t1.id = t2.id => (t1 = t2 /\ CopiesIn(t1, tasks) = 1)

\* C10: the number of calls of processRequest started and not yet settled is
\* at most maxConcurrentRequests in every reachable state.
C10_ConcurrencyCap == BagCardinality(tasks) <= maxConcurrentRequests

\* the position of a block's entry in a queue
QueuePos(queue, id) == CHOOSE i \in 1..Len(queue) : queue[i].request.id = id

\* the entries of a queue
QueueEntries(queue) == {queue[i] : i \in 1..Len(queue)}

\* C11: after every step the pending queue is sorted by priority descending;
\* entries that stay in the queue keep their relative order, and an entry
\* that enters (new, or replaced with a higher priority) stands behind every
\* entry of its priority, so equal priorities are served first-in-first-out;
\* every request started in a step has a priority at least that of every
\* request left waiting.
C11_QueueOrder ==
    [][/\ \A i, j \in 1..Len(requestQueue') :
              i < j => requestQueue'[i].priority >= requestQueue'[j].priority
       /\ \A i, j \in 1..Len(requestQueue) :
              (/\ i < j
               /\ requestQueue[i] \in QueueEntries(requestQueue')
               /\ requestQueue[j] \in QueueEntries(requestQueue'))
              => QueuePos(requestQueue', requestQueue[i].request.id)
                     < QueuePos(requestQueue', requestQueue[j].request.id)
       /\ \A k, j \in 1..Len(requestQueue') :
              (/\ requestQueue'[k] \notin QueueEntries(requestQueue)
               /\ j # k
               /\ requestQueue'[j].priority = requestQueue'[k].priority)
              => j < k
       /\ \A t \in Running(tasks') :
              Started(t) => \A k \in 1..Len(requestQueue') :
                                requestQueue'[k].priority <= calculatePriority(t)]_vars

\* a request has been started from the head while two requests of different
\* priorities are left waiting in order
C11_Witness ==
    /\ tasks # EmptyBag
    /\ Len(requestQueue) = 2
    /\ requestQueue[1].priority > requestQueue[2].priority
    /\ \A t \in Running(tasks) : calculatePriority(t) >= requestQueue[1].priority


\* C12: with highlighting enabled, a tokenize request whose code is longer
\* than maxBlockSize, for a block that is not in flight, is accepted:
\* handleTokenizeRequest ends with the block in the pending queue.
C12_OversizedAccepted ==
    \A request \in Requests :
        (/\ currentConfig.enableHighlighting
         /\ request.id \notin activeRequests
         /\ Len(request.code) > currentConfig.maxBlockSize)
        => ENABLED (/\ handleTokenizeRequest(request)
                    /\ \E i \in 1..Len(requestQueue') :
                           requestQueue'[i].request.id = request.id)


\* a block has an entry in the pending queue; a call of processRequest for a
\* block is in progress
Queued(id) == \E i \in 1..Len(requestQueue) : requestQueue[i].request.id = id
InFlight(id) == \E t \in Running(tasks) : t.id = id

\* C13: under fair scheduling and without theme changes, every block with a
\* request in the pending queue is eventually started, and every started
\* request eventually has its response sent and finishes.
C13_NoHungRequest ==
    \A id \in QueueIds :
        /\ Queued(id) ~> InFlight(id)
        /\ InFlight(id) ~> ~InFlight(id)

\* What holds of the queue under FairSpecQueue: a started request finishes,
\* and a queued request is started unless requests keep arriving forever.
StartedRequestFinishes == \A id \in QueueIds : InFlight(id) ~> ~InFlight(id)
ServedWhenArrivalsStop ==
    \A id \in QueueIds :
        ([]<><<ReceiveQueueRequest>>_vars) \/ (Queued(id) ~> InFlight(id))


\* C14: the tokens returned by createMinimalHighlighting and simpleTokenize
\* are contiguous: the first starts at 0, each token's endIndex - startIndex
\* is the length of its text, and each token ends where the next one starts
\* (so they are ordered by startIndex, without gap or overlap).
C14_Contiguity ==
    op \in {"createMinimalHighlighting", "simpleTokenize"}
        => /\ Len(tokens) > 0 => tokens[1].startIndex = 0
           /\ \A i \in 1..Len(tokens) :
                  /\ tokens[i].endIndex - tokens[i].startIndex = Len(tokens[i].text)
                  /\ i < Len(tokens) => /\ tokens[i].endIndex = tokens[i + 1].startIndex
                                        /\ tokens[i].startIndex <= tokens[i + 1].startIndex

\* a code of two lines has been tokenized into tokens of several types
C14_Witness ==
    /\ op \in {"createMinimalHighlighting", "simpleTokenize"}
    /\ Len(Split(code)) = 2
    /\ Len(tokens) = 3
    /\ \E i \in 1..Len(tokens) : tokens[i].scopes # "text"
    /\ tokens[3].startIndex = 2


\* the type of a token of either tokenizer
TokenType(t) == IF op = "tokenizeCode" THEN t.type ELSE t.scopes

\* the spans of the returned tokens, from the lengths of their texts
RECURSIVE TokenSpans(_, _, _)
TokenSpans(toks, i, pos) ==
    IF i > Len(toks) THEN {}
    ELSE {[start |-> pos, end |-> pos + Len(toks[i].text), type |-> TokenType(toks[i])]}
         \cup TokenSpans(toks, i + 1, pos + Len(toks[i].text))

\* the tokens other than plain text emitted for line li, as spans in the line
Emitted(lines, li) ==
    LET off == LineStart(lines, li - 1)
    IN {[start |-> s.start - off, end |-> s.end - off, type |-> s.type] :
           s \in {x \in TokenSpans(tokens, 1, 0) :
                     /\ x.type # "text"
                     /\ x.start >= off
                     /\ x.end <= off + Len(lines[li])}}

\* the candidate matches of a line in the order the code pushes them, and
\* sorted by start offset as the code sorts them
Candidates(line) ==
    IF op = "tokenizeCode" THEN PreviewMatches(line) ELSE MinimalMatches(line)
CandidateSet(line) == {Candidates(line)[i] : i \in 1..Len(Candidates(line))}
SortedPos(line, c) ==
    CHOOSE i \in 1..Len(Candidates(line)) : SortByStart(Candidates(line))[i] = c

\* Within every line: the tokens emitted are candidate matches; a candidate
\* is emitted exactly when it starts at or after the end of every emitted
\* match before it in start-offset order; the emitted matches do not overlap.
KeptInStartOrder ==
    \A li \in 1..Len(Split(code)) :
        LET line == Split(code)[li]
            emitted == Emitted(Split(code), li)
        IN /\ emitted \subseteq CandidateSet(line)
           /\ \A c \in CandidateSet(line) :
                  c \in emitted <=>
                      \A d \in emitted :
                          SortedPos(line, d) < SortedPos(line, c) => d.end <= c.start
           /\ \A c, d \in emitted : c = d \/ c.end <= d.start \/ d.end <= c.start

\* C15: in createMinimalHighlighting and tokenizeCode, within a line, a
\* candidate match is kept only if it starts at or after the end of the
\* previously kept match in start-offset order, kept matches never overlap,
\* and a keyword or number candidate lying inside an earlier-starting string
\* or comment candidate match is never emitted as a keyword or number token.
C15_MatchPrecedence ==
    op \in {"createMinimalHighlighting", "tokenizeCode"}
        => /\ KeptInStartOrder
           /\ \A li \in 1..Len(Split(code)) :
                  \A c, s \in CandidateSet(Split(code)[li]) :
                      (/\ c.type \in {"keyword", "number"}
                       /\ s.type \in {"string", "comment"}
                       /\ s.start < c.start /\ c.end <= s.end)
                      => c \notin Emitted(Split(code), li)

\* C15 (amended): as C15, with the last part for a keyword or number
\* candidate lying inside an earlier-starting string or comment match that
\* was kept: it is never emitted as a keyword or number token.
C15_MatchPrecedenceKept ==
    op \in {"createMinimalHighlighting", "tokenizeCode"}
        => /\ KeptInStartOrder
           /\ \A li \in 1..Len(Split(code)) :
                  \A c \in CandidateSet(Split(code)[li]) :
                      \A s \in Emitted(Split(code), li) :
                          (/\ c.type \in {"keyword", "number"}
                           /\ s.type \in {"string", "comment"}
                           /\ s.start < c.start /\ c.end <= s.end)
                          => c \notin Emitted(Split(code), li)

\* a line has been tokenized in which a number candidate lies inside a kept
\* string and a keyword candidate inside a kept comment
C15_Witness ==
    /\ op \in {"createMinimalHighlighting", "tokenizeCode"}
    /\ \E li \in 1..Len(Split(code)) :
           \E c \in CandidateSet(Split(code)[li]) :
               \E s \in Emitted(Split(code), li) :
                   /\ c.type \in {"keyword", "number"}
                   /\ s.type \in {"string", "comment"}
                   /\ s.start < c.start /\ c.end <= s.end


\* the language the result should name: the alias-normalized identifier
\* when the host knows it, 'plaintext' otherwise
ExpectedLanguage(l) ==
    IF normalizeLanguage(l) \in HostLanguages THEN normalizeLanguage(l) ELSE "plaintext"

\* C16: on every path of tokenize() (normal, streaming, timeout or error
\* fallback) the returned language is the alias-normalized identifier when
\* the host knows the language and 'plaintext' when it does not.
C16_ResultLanguage ==
    svcPc = "resolved" => svcResult.language = ExpectedLanguage(svcLang)

\* what holds on the normal path: when tokenizeInternal returned, the
\* language is the expected one or 'plaintext'; after the timeout or an
\* error it is the language as passed; in streaming it is the normalized one
ResultLanguageByPath ==
    svcPc = "resolved" =>
        /\ (svcMode = "normal" /\ ~AllFellBack)
              => svcResult.language \in {ExpectedLanguage(svcLang), "plaintext"}
        /\ (svcMode = "normal" /\ AllFellBack) => svcResult.language = svcLang
        /\ svcMode = "streaming" => svcResult.language = normalizeLanguage(svcLang)


OtherEntriesAreColors ==
    \A key \in DOMAIN getThemeData(themeManager, activeColorTheme).colors :
        key \notin ObjectPrototypeKeys
            => colorRegexTest(getThemeData(themeManager, activeColorTheme).colors[key])

\* every entry of colors is a hex colour
AllEntriesAreColors ==
    \A key \in DOMAIN getThemeData(themeManager, activeColorTheme).colors :
        colorRegexTest(getThemeData(themeManager, activeColorTheme).colors[key])

C19_Examples ==
    detectedKind # <<>> =>
        /\ bgColor = <<"#", "0", "0", "0", "0", "0", "0">> => detectedKind = HighContrast
        /\ bgColor = <<"#", "8", "0", "8", "0", "8", "0">> => detectedKind = Dark
        /\ bgColor = <<"#", "f", "f", "f", "f", "f", "f">> => detectedKind = HighContrast

\* C19 (amended): #000000 and #ffffff are classified highContrast; #808080
\* (luminance 128/255, above 0.5) is classified light, and #7f7f7f
\* (luminance 127/255) dark.
C19_ExamplesAmended ==
    detectedKind # <<>> =>
        /\ bgColor = <<"#", "0", "0", "0", "0", "0", "0">> => detectedKind = HighContrast
        /\ bgColor = <<"#", "8", "0", "8", "0", "8", "0">> => detectedKind = Light
        /\ bgColor = <<"#", "7", "f", "7", "f", "7", "f">> => detectedKind = Dark
        /\ bgColor = <<"#", "f", "f", "f", "f", "f", "f">> => detectedKind = HighContrast

\* #808080 has been classified
C19_Witness ==
    /\ bgColor = <<"#", "8", "0", "8", "0", "8", "0">>
    /\ detectedKind = Light


\* C20: set(k, v) with k already present replaces the stored value, makes k
\* the most recently used entry (the last to be evicted, the order of the
\* others unchanged), leaves size() unchanged and evicts nothing, even when
\* the cache is full.
C20_UpdateExisting ==
    [][\A k \in CacheKeys, v \in CacheValues :
          (/\ cacheLast' = CacheCall("set", k)
           /\ has(cacheManager, k)
           /\ cacheManager' = set(cacheManager, k, v))
          => /\ getReturn(cacheManager', k) = v
             /\ DOMAIN cacheManager'.cache = DOMAIN cacheManager.cache
             /\ size(cacheManager') = size(cacheManager)
             /\ \A x \in DOMAIN cacheManager.cache \ {k} :
                    cacheManager'.cache[x] = cacheManager.cache[x]
             /\ cacheManager'.accessOrder[Len(cacheManager'.accessOrder)] = k
             /\ Without(cacheManager'.accessOrder, k) = Without(cacheManager.accessOrder, k)
             /\ size(cacheManager') > 1 => has(evictLeastRecentlyUsed(cacheManager'), k)]_vars

\* a set has just been made on a key that was present, in a full cache of
\* capacity above 1 that has evicted a key before
C20_Witness ==
    /\ cacheLast.op = "set" /\ cacheHad
    /\ cacheManager.maxSize > 1
    /\ size(cacheManager) = cacheManager.maxSize
    /\ touched[Len(touched)] = cacheLast.key
    /\ cacheManager.accessOrder[Len(cacheManager.accessOrder)] = cacheLast.key
    /\ \E i \in 1..Len(touched) : ~has(cacheManager, touched[i])


\* the keys present, least recently set or read first
PresentByRecency == SelectSeq(touched, LAMBDA k : has(cacheManager, k))

C22_DistinctKeys ==
    (keyPair # <<>> /\ keyArgs.code1 # keyArgs.code2) => keyPair[1] # keyPair[2]

\* what holds: the same code gives the same key
SameCodeSameKey ==
    (keyPair # <<>> /\ keyArgs.code1 = keyArgs.code2) => keyPair[1] = keyPair[2]


\* C23: in every reachable state of the cache, get with an empty-string,
\* null or undefined key returns null (a miss); get, has and set with such
\* a key return normally
C23_InvalidKeysMiss ==
    \A key \in InvalidKeys : getReturn(cacheManager, key) = NULL

\* has and get with such a key on a cache that no set has filled: a miss
InvalidKeysMissWhenEmpty ==
    size(cacheManager) = 0 =>
        \A key \in TestKeys : ~has(cacheManager, key) /\ getReturn(cacheManager, key) = NULL


\* C24: an entry is in the cache only when the tokenize() call that produced
\* it did not fall back to minimal highlighting: no race of the call settled
\* by the timeout or by an error
C24_OnlySuccessfulCached ==
    size(cacheManager) > 0 =>
        \A k \in 1..Len(svcLog) : svcLog[k] \notin {"timeout", "error"}

\* what processRequest caches is what tokenize() resolved with, whichever
\* way its races settled
CachedIsResult ==
    size(cacheManager) > 0 =>
        /\ svcPc = "resolved"
        /\ getReturn(cacheManager, cacheLast.key) = svcResult


\* the palette entry of a key, the foreground when the palette has no such entry
PaletteColor(themeData, key) ==
    IF key \in DOMAIN themeData.colors THEN themeData.colors[key]
    ELSE themeData.foreground

\* C25: every token returned by createMinimalHighlighting and simpleTokenize
\* has a colour: a 'text' token the foreground, a token of a mapped type the
\* palette entry of its mapped key, or the foreground when the palette has
\* no such entry; getColorForTokenType gives a type without a mapping the
\* 'variable' entry
C25_TokenColors ==
    /\ \A i \in 1..Len(coloredTokens) :
          /\ coloredTokens[i].color # <<>>
          /\ coloredTokens[i].scopes \in DOMAIN typeMapping \cup {"text"}
          /\ coloredTokens[i].color =
                IF coloredTokens[i].scopes = "text" THEN colorTheme.foreground
                ELSE PaletteColor(colorTheme, typeMapping[coloredTokens[i].scopes])
    /\ colorType \in DOMAIN typeMapping =>
          colorResult = PaletteColor(colorTheme, typeMapping[colorType])
    /\ colorType \in {"text", "decorator", "label"} =>
          colorResult = PaletteColor(colorTheme, "variable")

\* a type named like a member of Object.prototype has no mapping either, and
\* gets the foreground, not the 'variable' entry
UnmappedUsesVariable ==
    colorType \notin DOMAIN typeMapping \cup {"none"} =>
        colorResult = PaletteColor(colorTheme, "variable")

C25_Witness ==
    /\ op = "createMinimalHighlighting"
    /\ "keyword" \notin DOMAIN colorTheme.colors
    /\ {"comment", "variable"} \subseteq DOMAIN colorTheme.colors
    /\ \E i, j \in 1..Len(coloredTokens) :
          /\ coloredTokens[i].scopes = "keyword"
          /\ coloredTokens[i].color = colorTheme.foreground
          /\ coloredTokens[j].scopes = "comment"
          /\ coloredTokens[j].color = colorTheme.colors["comment"]
          /\ coloredTokens[j].color # colorTheme.foreground
    /\ colorType = "label"
    /\ colorResult = colorTheme.colors["variable"]


\* the overrides that are hex colours are the entries of getThemeData().colors
OverridesReflected ==
    \A key \in DOMAIN themeManager.customThemeOverrides :
        colorRegexTest(themeManager.customThemeOverrides[key]) =>
            /\ key \in DOMAIN getThemeData(themeManager, activeColorTheme).colors
            /\ getThemeData(themeManager, activeColorTheme).colors[key]
                   = themeManager.customThemeOverrides[key]

\* C26: at every point after construction, and after any sequence of
\* setThemeOverrides, clearThemeOverrides and host theme changes,
\* getThemeData().colors[k] is the current override of k for every override
\* that is a 6- or 8-digit hex colour, those loaded from the settings at
\* construction included
C26_OverridesReflected == OverridesReflected

\* the same once a theme change, setThemeOverrides or clearThemeOverrides has
\* rebuilt the theme data
OverridesReflectedAfterUpdate == themeEvent # NULL => OverridesReflected


\* the last n elements of a sequence, all of it when it has fewer
LastValues(values, n) ==
    IF Len(values) <= n THEN values
    ELSE SubSeq(values, Len(values) - n + 1, Len(values))

\* C27: after any sequence of recordMetric calls on an enabled monitor, every
\* metric holds at most 100 values, and they are the values most recently
\* recorded under its name, in the order they were recorded
C27_MetricWindow ==
    /\ DOMAIN getMetrics(performanceMonitor) = DOMAIN perfRecorded
    /\ \A name \in DOMAIN getMetrics(performanceMonitor) :
          /\ Len(getMetrics(performanceMonitor)[name]) <= 100
          /\ getMetrics(performanceMonitor)[name] = LastValues(perfRecorded[name], 100)

\* a metric with more than 100 values recorded: the oldest are gone
C27_Witness ==
    /\ perfLast.op = "recordMetric"
    /\ Len(perfRecorded[perfLast.arg]) = 102
    /\ Len(getMetrics(performanceMonitor)[perfLast.arg]) = 100
    /\ getMetrics(performanceMonitor)[perfLast.arg][1] = 3
    /\ getMetrics(performanceMonitor)[perfLast.arg][100] = 102


\* C28: when endTimer is called on an enabled monitor with the id that
\* startTimer returned for a label, and that timer is still pending, the
\* elapsed time is recorded under exactly that label: getMetrics().has(label)
\* holds afterwards, also for a label that contains '-'
C28_TimerMetricName ==
    (perfLast.op = "endTimer" /\ perfLast.had) =>
        /\ perfLabels[perfLast.arg] \in DOMAIN getMetrics(performanceMonitor)
        /\ LastValues(getMetrics(performanceMonitor)[perfLabels[perfLast.arg]], 1)
               = <<perfLast.returned>>

\* the same for the labels without '-': the metric is the label; for every
\* label it is the label up to its first '-'
TimerMetricNameUpToDash ==
    (perfLast.op = "endTimer" /\ perfLast.had) =>
        /\ SplitFirst(perfLabels[perfLast.arg]) \in DOMAIN getMetrics(performanceMonitor)
        /\ LastValues(getMetrics(performanceMonitor)[SplitFirst(perfLabels[perfLast.arg])], 1)
               = <<perfLast.returned>>
        /\ (\A i \in 1..Len(perfLabels[perfLast.arg]) : perfLabels[perfLast.arg][i] # "-")
               => SplitFirst(perfLabels[perfLast.arg]) = perfLabels[perfLast.arg]

\* C29: in every reachable state in which the monitor is disabled, its
\* metrics and its timers are empty; a startTimer or recordMetric made while
\* disabled recorded nothing, an endTimer returned 0, and setEnabled(false)
\* removed what was recorded before
C29_DisabledEmpty ==
    ~performanceMonitor.enabled =>
        /\ getMetrics(performanceMonitor) = NoMetrics
        /\ performanceMonitor.timers = NoTimers
        /\ (perfLast.op = "endTimer" => perfLast.returned = 0)
        /\ (perfLast.op = "startTimer" => perfLast.returned = <<>>)

\* setEnabled(false) on a monitor with metrics or timers
C29_Witness ==
    /\ ~performanceMonitor.enabled
    /\ perfLast.op = "setEnabled"
    /\ perfLast.had
    /\ perfLabels # NoMetrics

\* recordMetric on a disabled monitor
DisabledRecordMetric ==
    /\ ~performanceMonitor.enabled
    /\ perfLast.op = "recordMetric"


\* the size bonus of the formula
SizeBonus(length) ==
    IF length < 1000 THEN 50
    ELSE IF 1000 <= length /\ length < 5000 THEN 20
    ELSE 0

CommonLanguageNames ==
    {<<"j", "a", "v", "a", "s", "c", "r", "i", "p", "t">>,
     <<"t", "y", "p", "e", "s", "c", "r", "i", "p", "t">>,
     <<"p", "y", "t", "h", "o", "n">>,
     <<"j", "a", "v", "a">>,
     <<"c", "p", "p">>}

\* C30: calculatePriority returns 100 + sizeBonus + languageBonus, sizeBonus
\* being 50 below 1000 code units, 20 from 1000 and below 5000, 0 otherwise,
\* and languageBonus 10 if the language is one of javascript, typescript,
\* python, java, cpp and 0 otherwise
C30_PriorityFormula ==
    prioResult # 0 =>
        prioResult = 100 + SizeBonus(Len(prioRequest.code))
                         + (IF prioRequest.language \in CommonLanguageNames THEN 10 ELSE 0)

\* C30, amended: the language bonus is 10 if the language in lower case is
\* one of the five names, whatever its spelling in the request
C30_PriorityFormulaLowerCase ==
    prioResult # 0 =>
        prioResult = 100 + SizeBonus(Len(prioRequest.code))
                         + (IF ToLowerCaseSeq(prioRequest.language) \in CommonLanguageNames
                            THEN 10 ELSE 0)

\* a request of 1000 code units in the language 'Java': 100 + 20 + 10
C30_Witness ==
    /\ Len(prioRequest.code) = 1000
    /\ prioRequest.language = <<"J", "a", "v", "a">>
    /\ prioResult = 130


\* C32: for every input, the empty string and inputs with empty lines
\* included, no token returned by createMinimalHighlighting has empty text
\* (startIndex = endIndex)
C32_NoZeroLengthSpan ==
    op = "createMinimalHighlighting" =>
        \A i \in 1..Len(tokens) :
            /\ tokens[i].text # <<>>
            /\ tokens[i].startIndex < tokens[i].endIndex

\* the same for every input but the empty string
NoZeroLengthSpanUnlessEmpty ==
    (op = "createMinimalHighlighting" /\ code # <<>>) =>
        \A i \in 1..Len(tokens) :
            /\ tokens[i].text # <<>>
            /\ tokens[i].startIndex < tokens[i].endIndex

\* the empty string gives one token, of type text, without text
EmptyCodeOneEmptyToken ==
    (op = "createMinimalHighlighting" /\ code = <<>>) =>
        tokens = <<Token(<<>>, "text", 0, 0)>>


\* C35: setMaxSize(n) terminates for every reachable cache state and every
\* value n, 0 and negative numbers included: a call that has entered its
\* loop returns
C35_SetMaxSizeTerminates == InLoop ~> ~InLoop

\* a loop iteration that evicts nothing: the loop condition stays true
LoopMakesProgress ==
    (InLoop /\ size(cacheManager) > cacheManager.maxSize) =>
        evictLeastRecentlyUsed(cacheManager) # cacheManager

\* an iteration removes an entry when the new size is not negative and no
\* key in the cache is the empty string, null or undefined
LoopEndsForTruthyKeys ==
    (/\ InLoop
     /\ cacheManager.maxSize >= 0
     /\ \A key \in DOMAIN cacheManager.cache : Truthy(key)
     /\ size(cacheManager) > cacheManager.maxSize)
        => size(evictLeastRecentlyUsed(cacheManager)) < size(cacheManager)


\* accessOrder holds exactly the keys of the cache map, each once
RecencyListIsKeys(m) ==
    /\ {m.accessOrder[i] : i \in 1..Len(m.accessOrder)} = DOMAIN m.cache
    /\ Len(m.accessOrder) = Cardinality(DOMAIN m.cache)

\* C36: after any sequence of set, get, delete, clear and setMaxSize calls
\* with arbitrary string keys, the empty string included, accessOrder holds
\* exactly the keys stored in the cache map, each exactly once
C36_RecencyListConsistent == ~InLoop => RecencyListIsKeys(cacheManager)

\* the same for the calls with non-empty keys and sizes from 0 (SpecCacheShrink)
RecencyListConsistentNonEmptyKeys == RecencyListIsKeys(cacheManager)


\* C37: in every reachable state of PreviewEnhancer maxConcurrentRequests is
\* an integer within 1..20, whatever raw concurrentRequests value the
\* settings hold at start-up or deliver in a configuration change
C37_LimitInRange == maxConcurrentRequests \in 1..20

\* what the constructor sets, from getConcurrentRequests(), is in range
ValidatedLimitInRange ==
    \A config \in RawConfigs : getConcurrentRequests(config) \in 1..20


\* C38: in every reachable state of PreviewEnhancer no block id appears more
\* than once in the pending queue, and no block id is at the same time in
\* the pending queue and in the in-flight set
C38_QueueBookkeeping ==
    /\ \A i, j \in 1..Len(requestQueue) :
           requestQueue[i].request.id = requestQueue[j].request.id => i = j
    /\ \A i \in 1..Len(requestQueue) : requestQueue[i].request.id \notin activeRequests

\* one block waits in the queue while another is in flight, after a theme
\* change has emptied both
C38_Witness ==
    /\ nThemeChanges > 0
    /\ Len(requestQueue) = 1
    /\ Cardinality(activeRequests) = 1
    /\ tasks # EmptyBag


\* the step ends the processRequest call of task t, by resolution or rejection
Finishes(t) == RequestCompletesFor(t) \/ RequestRejectsFor(t)

\* the step starts the request at the head of the queue
HeadStarted ==
    /\ requestQueue' = Tail(requestQueue)
    /\ Head(requestQueue).request.id \in activeRequests'

\* C33: when the processRequest call of an in-flight request ends, by
\* resolution or by rejection, its id leaves the in-flight set and, if the
\* queue is not empty, the request at the head of the queue is started in the
\* same step.
C33_SlotRefill ==
    [][\A t \in Running(tasks) :
          (Finishes(t) /\ t.id \in activeRequests)
          => /\ t.id \notin activeRequests'
             /\ (Len(requestQueue) > 0 => HeadStarted)]_vars

\* the id of a request that ends leaves the in-flight set, by resolution or
\* by rejection
FinishedLeavesInFlight ==
    [][\A t \in Running(tasks) :
          (Finishes(t) /\ t.id \in activeRequests)
          => t.id \notin activeRequests']_vars

\* a resolution within the concurrency limit starts the head of the queue
ResolutionRefills ==
    [][\A t \in Running(tasks) :
          (/\ RequestCompletesFor(t)
           /\ t.id \in activeRequests
           /\ Cardinality(activeRequests) <= maxConcurrentRequests
           /\ Len(requestQueue) > 0)
          => HeadStarted]_vars

\* C34: once the debounce timer of a theme change has run, a tokenization
\* that resolves was computed under the current theme data: the entry it
\* stores in the cache and the response it hands to sendMessageToPreview are
\* not those of a superseded theme.
C34_NoStaleThemeResults ==
    [][\A t \in Running(tasks) :
          (themeChangeDebounceTimeout = "expired" /\ TokenizeResolvesFor(t))
          => t.themeData = currentThemeData]_vars

\* a request that starts takes the theme data current at its start
StartedUnderCurrentTheme ==
    [][\A t \in Running(tasks') :
          Started(t) => t.themeData = currentThemeData]_vars

\* the positions of the document whose code is not empty after trim()
NonEmptyBlocks(blocks) == {i \in 1..Len(blocks) : Truthy(trim(blocks[i].text))}

\* the step is a theme check that finds another kind than that of currentTheme
ThemeCheckFindsChange ==
    /\ themeMutations
    /\ ~themeMutations'
    /\ bodyTheme # currentTheme

\* what C31 states of a theme check that finds another kind
Rehighlighted ==
    /\ currentTheme' = bodyTheme
    /\ processedBlocks' = {codeBlocks'[i].blockId : i \in NonEmptyBlocks(codeBlocks)}
    /\ \A i \in NonEmptyBlocks(codeBlocks) :
          /\ i \in processedNow'
          /\ codeBlocks'[i].color = bodyTheme
          /\ codeBlocks'[i].text = codeBlocks[i].text

\* C31: a theme check that finds another kind than that of currentTheme
\* replaces currentTheme, empties the processed set and enhances every
\* non-empty block of the document again, with the colours of the new theme;
\* a rescan does not enhance a block whose id is in the processed set.
C31_PreviewRehighlighting ==
    [][/\ ThemeCheckFindsChange => Rehighlighted
       /\ DomObserverTimeoutFires
          => \A i \in 1..Len(codeBlocks) :
                codeBlocks[i].blockId \in processedBlocks => i \notin processedNow']_vars

\* the ids of the elements are pairwise different
DistinctBlockIds(blocks) ==
    \A i, j \in 1..Len(blocks) : blocks[i].blockId = blocks[j].blockId => i = j

\* C31 for documents whose blocks have ids that differ
RehighlightingOfDistinctIds ==
    [][/\ (ThemeCheckFindsChange /\ DistinctBlockIds(codeBlocks')) => Rehighlighted
       /\ DomObserverTimeoutFires
          => \A i \in 1..Len(codeBlocks) :
                codeBlocks[i].blockId \in processedBlocks => i \notin processedNow']_vars

\* two blocks of the same code received the same id and only the first one
\* was enhanced
SameIdSecondBlockSkipped ==
    /\ Len(codeBlocks) = 2
    /\ codeBlocks[1].blockId = codeBlocks[2].blockId
    /\ Truthy(codeBlocks[1].blockId)
    /\ codeBlocks[1].color # "none"
    /\ codeBlocks[2].color = "none"
    /\ Truthy(trim(codeBlocks[2].text))

\* C39: the mutations of a scan cannot start scans forever: from some point
\* on no rescan is pending, as long as the host changes neither the document
\* nor the theme.
C39_RescanQuiescence == <>[](scanTimeout = "null")

\* a rescan has run after the scan that enhanced the blocks of a document
\* the host rendered, it enhanced nothing and no rescan is pending
C39_Witness ==
    /\ nDomChanges > 0
    /\ scanTimeout = "null"
    /\ processedNow = {}
    /\ \E i \in 1..Len(codeBlocks) :
          /\ codeBlocks[i].wrapped
          /\ codeBlocks[i].color = currentTheme
          /\ codeBlocks[i].blockId \in processedBlocks

\* every enhanced block is in the processed set
EnhancedBlocksProcessed ==
    \A i \in 1..Len(codeBlocks) :
        codeBlocks[i].color # "none" => codeBlocks[i].blockId \in processedBlocks

\* a rescan of a document whose blocks all have an id changes no element and
\* leaves no rescan pending
RescanOfScannedDocumentQuiet ==
    [][(/\ DomObserverTimeoutFires
        /\ \A i \in 1..Len(codeBlocks) : Truthy(codeBlocks[i].blockId))
       => /\ codeBlocks' = codeBlocks
          /\ processedNow' = {}
          /\ scanTimeout' = "null"]_vars

====
